---- MODULE Spec2Model ----
(***************************************************************************)
(* Vigenair Combiner service (service/combiner/combiner.py).               *)
(*                                                                         *)
(* Part I models the fan-out / fan-in rendering protocol of class          *)
(* Combiner: one render() worker per variant, the completion check         *)
(* check_finalise_render() and the merge step finalise_render(), all       *)
(* communicating through the batch folder of the storage bucket.           *)
(* Part II models the segment grouper: _group_consecutive_segments() and   *)
(* _is_sequential_segments(), with Python's str.split / int / str / join   *)
(* computed on character sequences.                                        *)
(* Part III models the rendering of one variant: _render_video_variant(),  *)
(* _build_ffmpeg_filters(), _get_variant_ffmpeg_commands() and             *)
(* _render_format(), with filter programs kept as sequences of filters.    *)
(***************************************************************************)
EXTENDS Integers, Sequences, FiniteSets, TLC

(***************************************************************************)
(* Bounds of the model.                                                    *)
(***************************************************************************)
\* number of variants of the batch (the N of "<id>-<N>_render.json")
NumVariants == 2
\* number of times render() is triggered again for a variant that already ran
MaxRetries == 1

VARIABLES
  \* ---- Part I: the batch folder and the workers
  consistency,   \* "strong" | "eventual": what a listing shows of fresh uploads
  files,         \* the batch folder: file name -> file content
  visible,       \* the names a storage listing currently returns
  pc,            \* pc[v]: position of variant v's render() worker
  retries,       \* how many times render() has been triggered again
  rerun,         \* rerun[v]: worker v's current run is such a repeated run
  combo,         \* combo[v]: rendered_combos value held by worker v until uploaded
  listing,       \* listing[v]: what filter_files returned to worker v's check
  wrote,         \* wrote[v]: worker v's current run uploaded the finalise file
  rendered_ok,   \* variants whose transcoding has succeeded at least once
  last_upload,   \* the variant whose partial file was uploaded last, as long
                 \* as no worker has run again; 0: none
  pending,       \* uploads of the finalise file not yet handled by the trigger
  fin_pc,        \* position of the finalise_render() merge step
  output,        \* the `output` dict of a running finalise_render()
  quiet,         \* finalise_render() reads since the last partial upload (0..2)
  \* ---- Part II: one call of _group_consecutive_segments
  av_segment_ids, \* the argument: a sequence of segment ids (character strings)
  gpc,           \* position in the function: "off", "outer", "inner", "done"
  i,             \* index of the outer while loop (0-based, as in the code)
  j,             \* index of the inner while loop (0-based)
  start_segment, \* av_segment_ids[i] of the current group
  result,        \* the list of (start, end) tuples built so far
  spans,         \* the (i, j) index range behind each tuple of result
  cmp,           \* the last call of _is_sequential_segments and its return value
  \* ---- Part III: one variant going through _render_video_variant
  av_segments,   \* video_variant.av_segments: the segments in key order
  has_audio,     \* whether the source video has an audio track
  render_settings, \* video_variant.render_settings
  speech_track_path, \* path of the speech track, or None
  music_track_path,  \* path of the music track, or None
  square_video_file_path,   \* path of the square crop of the source, or None
  vertical_video_file_path, \* path of the vertical crop of the source, or None
  rpc,           \* position in render() / _render_video_variant
  filters,       \* the three programs returned by _build_ffmpeg_filters
  ffmpeg_cmds,   \* the command built for the horizontal format
  ran,           \* the transcoding commands executed so far
  output_dir,    \* the files of the local output directory (combos_dir)
  uploaded,      \* the files of this variant uploaded to the batch folder
  rendered_paths, \* rendered_paths: the formats rendered, and those with 'images'
  render_result, \* the dict _render_video_variant returns, written to the partial file
  asset_fault,   \* an asset generation step of this run failed or gave nothing
  \* Part IV: the end-slate job (EndSlateProcessor)
  epc,           \* position of process()
  bucket,        \* the objects of the bucket: path and bytes
  all_files,     \* the listing of the render folder taken by process()
  todo,          \* the files the three loops of process() have still to visit
  attempted,     \* the files a loop of process() has called its handler for
  skipped,       \* the files whose handler returned after an empty download
  failed_file,   \* the file whose handler raised
  \* Part IV: the text files of the end-slate job
  wpc,           \* position of the handling of a text file
  text_content,  \* the content of the text file
  original_folder, \* config['rendered_video_folder']
  cta_folder,    \* the name of the new folder
  updated_content, \* the content to upload
  applications   \* how often _update_combos_json was applied

fanin_vars == <<consistency, files, visible, pc, retries, rerun, combo,
                listing, wrote, rendered_ok, last_upload, pending, fin_pc,
                output, quiet>>

group_vars == <<av_segment_ids, gpc, i, j, start_segment, result, spans, cmp>>

render_vars == <<av_segments, has_audio, render_settings, speech_track_path,
                 music_track_path, square_video_file_path,
                 vertical_video_file_path, rpc, filters, ffmpeg_cmds, ran,
                 output_dir, uploaded, rendered_paths, render_result,
                 asset_fault>>

asset_vars == <<rendered_paths, render_result, asset_fault>>

slate_vars == <<epc, bucket, all_files, todo, attempted, skipped, failed_file>>

text_vars == <<wpc, text_content, original_folder, cta_folder, updated_content,
               applications>>

vars == <<fanin_vars, group_vars, render_vars, slate_vars, text_vars>>

Variants == 1..NumVariants
\* the results a variant's render can produce: a render and a repeated render
\* of one variant may differ (generated texts, key frames) or agree
Contents == {"a", "b"}

(***************************************************************************)
(* File names.  A name is "<id>-<of>_<base>" (id > 0) or the bare "<base>" *)
(* (id = 0).                                                               *)
(***************************************************************************)
OUTPUT_COMBINATIONS_FILE == "combos.json"
INPUT_RENDERING_FINALISE_FILE == "finalise.json"

\* render(): f'{variant_id}_{OUTPUT_COMBINATIONS_FILE}', variant_id = "<v>-<N>"
PartialFile(v) == [id |-> v, of |-> NumVariants, base |-> OUTPUT_COMBINATIONS_FILE]
\* finalise_render(): Path(gcs_folder, OUTPUT_COMBINATIONS_FILE)
CombinedFile == [id |-> 0, of |-> 0, base |-> OUTPUT_COMBINATIONS_FILE]
\* check_finalise_render(): f'{variants_count}-{variants_count}_{FINALISE_FILE}'
FinaliseFile(variants_count) ==
  [id |-> variants_count, of |-> variants_count, base |-> INPUT_RENDERING_FINALISE_FILE]

\* int(variant_id.split('-')[1]) of the worker's own file name
VariantsCountOf(v) == PartialFile(v).of

AllPartials == {PartialFile(v) : v \in Variants}

(***************************************************************************)
(* Storage listing.  A name ends with `suffix` when its base is `suffix`:  *)
(* the bare combined file ends with OUTPUT_COMBINATIONS_FILE just as every *)
(* "<id>-<N>_" + OUTPUT_COMBINATIONS_FILE does.                            *)
(***************************************************************************)
EndsWith(name, suffix) == name.base = suffix

\* lexicographic order of names with the same base: a digit sorts before a
\* letter, so "<id>-<N>_combos.json" precedes "combos.json"
NameBefore(a, b) ==
  IF a.id = 0 THEN FALSE
  ELSE IF b.id = 0 THEN TRUE
  ELSE a.id < b.id

RECURSIVE SortNames(_)
SortNames(S) ==
  IF S = {} THEN <<>>
  ELSE LET first == CHOOSE x \in S : \A y \in S \ {x} : NameBefore(x, y)
       IN  <<first>> \o SortNames(S \ {first})

\* StorageService.filter_files(bucket, prefix=gcs_folder + '/', suffix)
filter_files(suffix) ==
  SortNames({n \in visible : EndsWith(n, suffix)})

SeqToSet(s) == {s[k] : k \in 1..Len(s)}

(***************************************************************************)
(* JSON objects.  A dict is the sequence of its (key, value) items in      *)
(* insertion order; json.dump writes the items in that order, so two files *)
(* are byte-identical exactly when these sequences are equal.              *)
(***************************************************************************)
HasKey(d, k) == \E n \in 1..Len(d) : d[n][1] = k
Lookup(d, k) == d[CHOOSE n \in 1..Len(d) : d[n][1] = k][2]

\* fault injection: every assignment adds an item, also for a key already present
DictSetAppends(d, k, v) == Append(d, <<k, v>>)

\* output[k] = v
DictSet(d, k, v) ==
  IF HasKey(d, k)
  THEN [n \in 1..Len(d) |-> IF d[n][1] = k THEN <<k, v>> ELSE d[n]]
  ELSE Append(d, <<k, v>>)

\* for k, v in render_output_dict.items(): output[k] = v
RECURSIVE UpdateAll(_, _)
UpdateAll(out, d) ==
  IF d = <<>> THEN out
  ELSE UpdateAll(DictSet(out, d[1][1], d[1][2]), Tail(d))

\* for render_output_dict in render_output_dicts: ...
RECURSIVE MergeDicts(_, _)
MergeDicts(out, dicts) ==
  IF dicts = <<>> THEN out
  ELSE MergeDicts(UpdateAll(out, dicts[1]), Tail(dicts))

\* storage upload: creates the object or overwrites it
Upload(name, content) == (name :> content) @@ files
\* what listings return after an upload: a strongly consistent listing shows
\* the object at once, an eventually consistent one after become_visible
Shown(name) ==
  IF consistency = "strong" THEN visible \cup {name} ELSE visible

(***************************************************************************)
(* render(): one worker per variant.                                       *)
(***************************************************************************)
CanStart(v) ==
  \/ pc[v] = "idle"
  \/ pc[v] \in {"done", "failed"} /\ retries < MaxRetries

Started(v) ==
  /\ CanStart(v)
  /\ retries' = IF pc[v] = "idle" THEN retries ELSE retries + 1
  /\ rerun' = [rerun EXCEPT ![v] = pc[v] # "idle"]
  /\ listing' = [listing EXCEPT ![v] = <<>>]
  /\ wrote' = [wrote EXCEPT ![v] = FALSE]
  /\ last_upload' = IF pc[v] = "idle" THEN last_upload ELSE 0

\* _render_video_variant returns: every transcoding command exited with 0
render_variant(v) ==
  /\ Started(v)
  /\ \E c \in Contents : combo' = [combo EXCEPT ![v] = c]
  /\ rendered_ok' = rendered_ok \cup {v}
  /\ pc' = [pc EXCEPT ![v] = "rendered"]
  /\ UNCHANGED <<consistency, files, visible, pending, fin_pc, output, quiet>>
  /\ UNCHANGED <<group_vars, render_vars, slate_vars, text_vars>>

\* fault injection: the failure is caught and render() carries on to the upload
render_variant_fails_swallowed(v) ==
  /\ Started(v)
  /\ \E c \in Contents : combo' = [combo EXCEPT ![v] = c]
  /\ pc' = [pc EXCEPT ![v] = "rendered"]
  /\ UNCHANGED <<consistency, files, visible, rendered_ok, pending, fin_pc,
                 output, quiet>>
  /\ UNCHANGED <<group_vars, render_vars, slate_vars, text_vars>>

\* a transcoding command fails: the exception leaves render()
render_variant_fails(v) ==
  /\ Started(v)
  /\ pc' = [pc EXCEPT ![v] = "failed"]
  /\ UNCHANGED <<consistency, files, visible, combo, rendered_ok, pending,
                 fin_pc, output, quiet>>
  /\ UNCHANGED <<group_vars, render_vars, slate_vars, text_vars>>

\* json.dump(rendered_combos) and upload_gcs_dir(combos_dir)
render_upload(v) ==
  /\ pc[v] = "rendered"
  /\ files' = Upload(PartialFile(v), <<<<v, combo[v]>>>>)
  /\ visible' = Shown(PartialFile(v))
  /\ quiet' = 0
  /\ combo' = [combo EXCEPT ![v] = "none"]
  /\ pc' = [pc EXCEPT ![v] = "uploaded"]
  /\ last_upload' = IF retries = 0 THEN v ELSE 0
  /\ UNCHANGED <<consistency, retries, rerun, listing, wrote, rendered_ok,
                 pending, fin_pc, output>>
  /\ UNCHANGED <<group_vars, render_vars, slate_vars, text_vars>>

(***************************************************************************)
(* check_finalise_render(variants_count)                                   *)
(***************************************************************************)
\* rendered_count = len(filter_files(..., suffix=OUTPUT_COMBINATIONS_FILE))
check_finalise_list(v) ==
  /\ pc[v] = "uploaded"
  /\ listing' = [listing EXCEPT ![v] = filter_files(OUTPUT_COMBINATIONS_FILE)]
  /\ pc' = [pc EXCEPT ![v] = "listed"]
  /\ UNCHANGED <<consistency, files, visible, retries, rerun, combo, wrote,
                 rendered_ok, pending, fin_pc, output, quiet>>
  /\ UNCHANGED last_upload
  /\ UNCHANGED <<group_vars, render_vars, slate_vars, text_vars>>

\* fault injection: the count is compared with one more than the expected total
CountMatchesOffByOne(rendered_count, variants_count) ==
  rendered_count = variants_count + 1

\* fault injection: the check accepts any count up to the expected total
CountAtMost(rendered_count, variants_count) == rendered_count <= variants_count

\* if rendered_count == variants_count:
CountMatches(rendered_count, variants_count) == rendered_count = variants_count

check_finalise_upload(v) ==
  /\ pc[v] = "listed"
  /\ IF CountMatches(Len(listing[v]), VariantsCountOf(v))
     THEN /\ files' = Upload(FinaliseFile(VariantsCountOf(v)), <<>>)
          /\ visible' = Shown(FinaliseFile(VariantsCountOf(v)))
          /\ wrote' = [wrote EXCEPT ![v] = TRUE]
          /\ pending' = pending + 1
     ELSE UNCHANGED <<files, visible, wrote, pending>>
  /\ pc' = [pc EXCEPT ![v] = "done"]
  /\ UNCHANGED <<consistency, retries, rerun, combo, listing, rendered_ok,
                 fin_pc, output, quiet>>
  /\ UNCHANGED last_upload
  /\ UNCHANGED <<group_vars, render_vars, slate_vars, text_vars>>

(***************************************************************************)
(* finalise_render(): the trigger runs it once for every upload of the     *)
(* finalise file.                                                          *)
(***************************************************************************)
Min(a, b) == IF a < b THEN a ELSE b

\* render_output_dicts = [json.loads(c) for c in filter_files(fetch_content)]
render_output_dicts ==
  LET names == filter_files(OUTPUT_COMBINATIONS_FILE)
  IN  [n \in 1..Len(names) |-> files[names[n]]]

finalise_render_merge ==
  /\ fin_pc = "idle"
  /\ pending > 0
  /\ pending' = pending - 1
  /\ output' = MergeDicts(<<>>, render_output_dicts)
  /\ quiet' = Min(quiet + 1, 2)
  /\ fin_pc' = "merged"
  /\ UNCHANGED <<consistency, files, visible, pc, retries, rerun, combo,
                 listing, wrote, rendered_ok>>
  /\ UNCHANGED last_upload
  /\ UNCHANGED <<group_vars, render_vars, slate_vars, text_vars>>

finalise_render_upload ==
  /\ fin_pc = "merged"
  /\ files' = Upload(CombinedFile, output)
  /\ visible' = Shown(CombinedFile)
  /\ output' = <<>>
  /\ fin_pc' = "idle"
  /\ UNCHANGED <<consistency, pc, retries, rerun, combo, listing, wrote,
                 rendered_ok, pending, quiet>>
  /\ UNCHANGED last_upload
  /\ UNCHANGED <<group_vars, render_vars, slate_vars, text_vars>>

\* the storage backend makes an uploaded object appear in listings
become_visible ==
  /\ consistency = "eventual"
  /\ \E n \in DOMAIN files \ visible : visible' = visible \cup {n}
  /\ UNCHANGED <<consistency, files, pc, retries, rerun, combo, listing,
                 wrote, rendered_ok, pending, fin_pc, output, quiet>>
  /\ UNCHANGED last_upload
  /\ UNCHANGED <<group_vars, render_vars, slate_vars, text_vars>>

GroupOff ==
  /\ av_segment_ids = <<>>
  /\ gpc = "off"
  /\ i = 0
  /\ j = 0
  /\ start_segment = <<>>
  /\ result = <<>>
  /\ spans = <<>>
  /\ cmp = [made |-> FALSE, cur |-> <<>>, nxt |-> <<>>, ret |-> FALSE]

\* a missing path, command or program
None == "None"

RenderOff ==
  /\ av_segments = <<>>
  /\ has_audio = FALSE
  /\ render_settings = None
  /\ speech_track_path = None
  /\ music_track_path = None
  /\ square_video_file_path = None
  /\ vertical_video_file_path = None
  /\ rpc = "off"
  /\ filters = <<>>
  /\ ffmpeg_cmds = None
  /\ ran = <<>>
  /\ output_dir = {}
  /\ uploaded = {}
  /\ rendered_paths = [path |-> {}, images |-> {}]
  /\ render_result = None
  /\ asset_fault = FALSE

\* no end-slate job is running
SlateOff ==
  /\ epc = "off"
  /\ bucket = {}
  /\ all_files = <<>>
  /\ todo = <<>>
  /\ attempted = {}
  /\ skipped = {}
  /\ failed_file = None

\* no text file is being handled
TextOff ==
  /\ wpc = "off"
  /\ text_content = <<>>
  /\ original_folder = <<>>
  /\ cta_folder = <<>>
  /\ updated_content = <<>>
  /\ applications = 0

InitFanIn(mode) ==
  /\ consistency = mode
  /\ files = [n \in {} |-> <<>>]
  /\ visible = {}
  /\ pc = [v \in Variants |-> "idle"]
  /\ retries = 0
  /\ rerun = [v \in Variants |-> FALSE]
  /\ combo = [v \in Variants |-> "none"]
  /\ listing = [v \in Variants |-> <<>>]
  /\ wrote = [v \in Variants |-> FALSE]
  /\ rendered_ok = {}
  /\ last_upload = 0
  /\ pending = 0
  /\ fin_pc = "idle"
  /\ output = <<>>
  /\ quiet = 0

Init == InitFanIn("strong") /\ SlateOff /\ TextOff /\ GroupOff /\ RenderOff

Next ==
  \/ \E v \in Variants : render_variant(v)
  \/ \E v \in Variants : render_variant_fails(v)
  \/ \E v \in Variants : render_upload(v)
  \/ \E v \in Variants : check_finalise_list(v)
  \/ \E v \in Variants : check_finalise_upload(v)
  \/ finalise_render_merge
  \/ finalise_render_upload

Spec == Init /\ [][Next]_vars

InitLag == InitFanIn("eventual") /\ SlateOff /\ TextOff /\ GroupOff /\ RenderOff

NextLag == Next \/ become_visible

SpecLag == InitLag /\ [][NextLag]_vars

(***************************************************************************)
(* Part II.  Segment ids are Python strings: sequences of the characters   *)
(* "0".."9" and ".".                                                       *)
(***************************************************************************)
\* longest input sequence enumerated over GroupIds
MaxLen == 3
\* deepest current id enumerated for a pair (the next id is one level deeper)
MaxDepth == 2

DigitChars == <<"0", "1", "2", "3", "4", "5", "6", "7", "8", "9">>
IsDigit(c) == \E d \in 1..Len(DigitChars) : DigitChars[d] = c
DigitValue(c) == (CHOOSE d \in 1..Len(DigitChars) : DigitChars[d] = c) - 1

Last(s) == s[Len(s)]
Front(s) == SubSeq(s, 1, Len(s) - 1)

\* str.split('.')
RECURSIVE Split(_)
Split(s) ==
  IF \A k \in 1..Len(s) : s[k] # "."
  THEN <<s>>
  ELSE LET dot == CHOOSE k \in 1..Len(s) :
                    s[k] = "." /\ \A m \in 1..(k - 1) : s[m] # "."
       IN  <<SubSeq(s, 1, dot - 1)>> \o Split(SubSeq(s, dot + 1, Len(s)))

\* '.'.join(parts)
RECURSIVE Join(_)
Join(parts) ==
  IF Len(parts) = 0 THEN <<>>
  ELSE IF Len(parts) = 1 THEN parts[1]
  ELSE parts[1] \o <<".">> \o Join(Tail(parts))

\* int(part) raises ValueError unless part is a non-empty run of digits
RaisesValueError(part) == part = <<>> \/ \E k \in 1..Len(part) : ~IsDigit(part[k])

\* int(part)
RECURSIVE IntOf(_)
IntOf(part) ==
  IF part = <<>> THEN 0
  ELSE IntOf(Front(part)) * 10 + DigitValue(Last(part))

\* str(n), n >= 0
RECURSIVE StrOf(_)
StrOf(n) ==
  IF n < 10 THEN <<DigitChars[n + 1]>>
  ELSE StrOf(n \div 10) \o <<DigitChars[(n % 10) + 1]>>

\* fault injection: only the plain increment is recognised
is_sequential_plain_only(current_segment_id, next_segment_id) ==
  LET current_parts == Split(current_segment_id)
      next_parts == Split(next_segment_id)
  IN  /\ Len(current_parts) = Len(next_parts)
      /\ Front(current_parts) = Front(next_parts)
      /\ ~RaisesValueError(Last(current_parts))
      /\ ~RaisesValueError(Last(next_parts))
      /\ IntOf(Last(next_parts)) = IntOf(Last(current_parts)) + 1

\* fault injection: the sub-level step appends '.1' to the current id, not incremented
is_sequential_sublevel_of_current(current_segment_id, next_segment_id) ==
  \/ is_sequential_plain_only(current_segment_id, next_segment_id)
  \/ /\ ~RaisesValueError(Last(Split(current_segment_id)))
     /\ next_segment_id = current_segment_id \o <<".", "1">>

\* _is_sequential_segments(current_segment_id, next_segment_id)
is_sequential_segments(current_segment_id, next_segment_id) ==
  LET current_parts == Split(current_segment_id)
      next_parts == Split(next_segment_id)
  IN  IF RaisesValueError(Last(current_parts)) THEN FALSE
      ELSE
        LET next_level_parts ==
              [current_parts EXCEPT
                 ![Len(current_parts)] = StrOf(IntOf(Last(current_parts)) + 1)]
            same_level == /\ Len(current_parts) = Len(next_parts)
                          /\ Front(current_parts) = Front(next_parts)
        IN  IF same_level /\ RaisesValueError(Last(next_parts)) THEN FALSE
            ELSE \/ /\ same_level
                    /\ IntOf(Last(next_parts)) = IntOf(Last(current_parts)) + 1
                 \/ next_segment_id = Join(next_level_parts) \o <<".", "1">>

(***************************************************************************)
(* _group_consecutive_segments(av_segment_ids), one loop step per action.  *)
(***************************************************************************)
\* while i < len(av_segment_ids): start_segment = av_segment_ids[i]; j = i
group_start ==
  /\ gpc = "outer"
  /\ i < Len(av_segment_ids)
  /\ start_segment' = av_segment_ids[i + 1]
  /\ j' = i
  /\ gpc' = "inner"
  /\ UNCHANGED <<av_segment_ids, i, result, spans, cmp>>
  /\ UNCHANGED <<fanin_vars, render_vars, slate_vars, text_vars>>

\* while j < len - 1: if _is_sequential_segments(ids[j], ids[j + 1]): j += 1
group_extend ==
  /\ gpc = "inner"
  /\ j < Len(av_segment_ids) - 1
  /\ is_sequential_segments(av_segment_ids[j + 1], av_segment_ids[j + 2])
  /\ j' = j + 1
  /\ cmp' = [made |-> TRUE, cur |-> av_segment_ids[j + 1],
             nxt |-> av_segment_ids[j + 2], ret |-> TRUE]
  /\ UNCHANGED <<av_segment_ids, gpc, i, start_segment, result, spans>>
  /\ UNCHANGED <<fanin_vars, render_vars, slate_vars, text_vars>>

\* fault injection: the outer loop resumes at j + 2
group_close_skips ==
  /\ gpc = "inner"
  /\ IF j < Len(av_segment_ids) - 1
     THEN /\ ~is_sequential_segments(av_segment_ids[j + 1], av_segment_ids[j + 2])
          /\ cmp' = [made |-> TRUE, cur |-> av_segment_ids[j + 1],
                     nxt |-> av_segment_ids[j + 2], ret |-> FALSE]
     ELSE UNCHANGED cmp
  /\ result' = Append(result, <<start_segment, av_segment_ids[j + 1]>>)
  /\ spans' = Append(spans, <<i, j>>)
  /\ i' = j + 2
  /\ gpc' = "outer"
  /\ UNCHANGED <<av_segment_ids, j, start_segment>>
  /\ UNCHANGED <<fanin_vars, render_vars, slate_vars, text_vars>>

\* fault injection: the inner loop breaks without looking at the next id
group_close_always ==
  /\ gpc = "inner"
  /\ IF j < Len(av_segment_ids) - 1
     THEN cmp' = [made |-> TRUE, cur |-> av_segment_ids[j + 1],
                  nxt |-> av_segment_ids[j + 2], ret |-> FALSE]
     ELSE UNCHANGED cmp
  /\ result' = Append(result, <<start_segment, av_segment_ids[j + 1]>>)
  /\ spans' = Append(spans, <<i, j>>)
  /\ i' = j + 1
  /\ gpc' = "outer"
  /\ UNCHANGED <<av_segment_ids, j, start_segment>>
  /\ UNCHANGED <<fanin_vars, render_vars, slate_vars, text_vars>>

\* else: break (or the inner loop ends);
\* result.append((start_segment, av_segment_ids[j])); i = j + 1
group_close ==
  /\ gpc = "inner"
  /\ IF j < Len(av_segment_ids) - 1
     THEN /\ ~is_sequential_segments(av_segment_ids[j + 1], av_segment_ids[j + 2])
          /\ cmp' = [made |-> TRUE, cur |-> av_segment_ids[j + 1],
                     nxt |-> av_segment_ids[j + 2], ret |-> FALSE]
     ELSE UNCHANGED cmp
  /\ result' = Append(result, <<start_segment, av_segment_ids[j + 1]>>)
  /\ spans' = Append(spans, <<i, j>>)
  /\ i' = j + 1
  /\ gpc' = "outer"
  /\ UNCHANGED <<av_segment_ids, j, start_segment>>
  /\ UNCHANGED <<fanin_vars, render_vars, slate_vars, text_vars>>

\* return result
group_return ==
  /\ gpc = "outer"
  /\ i >= Len(av_segment_ids)
  /\ gpc' = "done"
  /\ UNCHANGED <<av_segment_ids, i, j, start_segment, result, spans, cmp>>
  /\ UNCHANGED <<fanin_vars, render_vars, slate_vars, text_vars>>

(***************************************************************************)
(* The inputs of the grouper.                                              *)
(***************************************************************************)
\* the three inputs of the function's docstring
DocExample1 == << <<"1">>, <<"2">>, <<"3">>, <<"4", ".", "1">>,
                  <<"4", ".", "2">>, <<"4", ".", "3">>, <<"5">> >>
DocExample2 == << <<"1">>, <<"2">>, <<"3">>, <<"4", ".", "2">>,
                  <<"4", ".", "3">>, <<"4", ".", "4">>, <<"5">> >>
DocExample3 == << <<"5">>, <<"1">>, <<"2">>, <<"3">> >>

\* a small catalogue: plain, split and re-joining ids
GroupIds == { <<"1">>, <<"2">>, <<"3">>, <<"3", ".", "1">>,
              <<"3", ".", "2">>, <<"4">> }

SeqsUpTo(S, n) == UNION {[1..k -> S] : k \in 0..n}

\* ids written from their numeric parts, as the upstream catalogue writes them
PartValues == {0, 1, 2, 9, 10}
NumericIds(depth) == UNION {[1..k -> PartValues] : k \in 1..depth}
FormatId(parts) == Join([k \in 1..Len(parts) |-> StrOf(parts[k])])

GroupInputs ==
  {DocExample1, DocExample2, DocExample3}
  \cup SeqsUpTo(GroupIds, MaxLen)
  \cup {<<FormatId(a), FormatId(b)>> :
          a \in NumericIds(MaxDepth), b \in NumericIds(MaxDepth + 1)}

InitGroup ==
  /\ InitFanIn("strong") /\ SlateOff /\ TextOff
  /\ av_segment_ids \in GroupInputs
  /\ gpc = "outer"
  /\ i = 0
  /\ j = 0
  /\ start_segment = <<>>
  /\ result = <<>>
  /\ spans = <<>>
  /\ cmp = [made |-> FALSE, cur |-> <<>>, nxt |-> <<>>, ret |-> FALSE]
  /\ RenderOff

NextGroup ==
  \/ group_start
  \/ group_extend
  \/ group_close
  \/ group_return

SpecGroup == InitGroup /\ [][NextGroup]_vars

\* ids as any caller may pass them: parts that are numbers, letters or empty
RawParts == { <<"1">>, <<"2">>, <<"a">>, <<>> }
RawIds(depth) == {Join(parts) : parts \in UNION {[1..k -> RawParts] : k \in 1..depth}}

GroupInputsRaw ==
  {<<a, b>> : a \in RawIds(MaxDepth), b \in RawIds(MaxDepth + 1)}
  \cup {<<a, b, c>> : a \in RawIds(1), b \in RawIds(1), c \in RawIds(MaxDepth)}

InitGroupRaw ==
  /\ InitFanIn("strong") /\ SlateOff /\ TextOff
  /\ av_segment_ids \in GroupInputsRaw
  /\ gpc = "outer"
  /\ i = 0
  /\ j = 0
  /\ start_segment = <<>>
  /\ result = <<>>
  /\ spans = <<>>
  /\ cmp = [made |-> FALSE, cur |-> <<>>, nxt |-> <<>>, ret |-> FALSE]
  /\ RenderOff

SpecGroupRaw == InitGroupRaw /\ [][NextGroup]_vars

(***************************************************************************)
(* Part III.  One variant through _render_video_variant.  Timestamps are   *)
(* whole seconds; a filter program (the string passed to -filter_complex)  *)
(* is the sequence of its filters, '' is the empty sequence.               *)
(***************************************************************************)
\* most segments a variant references
MaxSegs == 3

\* sys.maxsize, as far as the model's integers reach
sys_maxsize == 2147483647
\* Utils.get_media_duration(video_file_path) of the source video, which ends
\* with its last segment
video_duration == 10
\* float(ConfigService.CONFIG_DEFAULT_FADE_OUT_DURATION)
CONFIG_DEFAULT_FADE_OUT_DURATION == 1
\* float(ConfigService.CONFIG_DEFAULT_FADE_OUT_BUFFER)
CONFIG_DEFAULT_FADE_OUT_BUFFER == 1

\* VideoVariantSegment(av_segment_id, start_s, end_s)
VideoVariantSegment(id, start, end) ==
  [av_segment_id |-> id, start_s |-> start, end_s |-> end]

\* the segments of the source video: "1" and "2" abut, "3.1" starts one
\* second after "2" ends, "3.1", "3.2" and "4" abut
Catalogue ==
  << VideoVariantSegment(<<"1">>, 0, 2),
     VideoVariantSegment(<<"2">>, 2, 4),
     VideoVariantSegment(<<"3", ".", "1">>, 5, 6),
     VideoVariantSegment(<<"3", ".", "2">>, 6, 8),
     VideoVariantSegment(<<"4">>, 8, 10) >>

\* segments = {str(d['av_segment_id']): VideoVariantSegment(**d) for d in
\* segment_dicts}: the chosen catalogue segments, one entry per id, in the
\* order of the creative
VariantSegments(len) ==
  {[k \in 1..Len(pick) |-> Catalogue[pick[k]]] :
     pick \in {p \in SeqsUpTo(1..Len(Catalogue), len) :
                 \A a, b \in 1..Len(p) : a # b => p[a] # p[b]}}

\* list(video_variant.av_segments.keys())
Keys(segments) == [k \in 1..Len(segments) |-> segments[k].av_segment_id]
\* video_variant.av_segments[id]
SegmentOf(segments, id) ==
  segments[CHOOSE k \in 1..Len(segments) : segments[k].av_segment_id = id]

\* _group_consecutive_segments as a function: the inner loop from index j
RECURSIVE GroupEnd(_, _)
GroupEnd(ids, at) ==
  IF at < Len(ids) - 1 /\ is_sequential_segments(ids[at + 1], ids[at + 2])
  THEN GroupEnd(ids, at + 1)
  ELSE at

\* the outer loop from index i
RECURSIVE GroupFrom(_, _)
GroupFrom(ids, at) ==
  IF at < Len(ids)
  THEN LET end == GroupEnd(ids, at)
       IN  << <<ids[at + 1], ids[end + 1]>> >> \o GroupFrom(ids, end + 1)
  ELSE <<>>

group_consecutive_segments(ids) == GroupFrom(ids, 0)

\* fault injection: every segment is a shot group of its own
shot_timestamps_per_segment(segments) ==
  [k \in 1..Len(segments) |-> <<segments[k].start_s, segments[k].end_s>>]

\* shot_timestamps: (start of the group's first segment, end of its last)
shot_timestamps(segments) ==
  LET shot_groups == group_consecutive_segments(Keys(segments))
  IN  [k \in 1..Len(shot_groups) |->
         <<SegmentOf(segments, shot_groups[k][1]).start_s,
           SegmentOf(segments, shot_groups[k][2]).end_s>>]

\* a stream label: [0:v], [outa], ... have index 0; [v0], [a1], ... their own
Label(name, idx) == <<name, idx>>
Stream(name) == Label(name, 0)
\* one filter of a program: its input labels, its numeric options in the
\* order written, its output labels
Filter(op, in, args, out) == [op |-> op, in |-> in, args |-> args, out |-> out]

\* fault injection: the duration is assigned, not accumulated
TotalDurationOfLastShot(timestamps) ==
  IF timestamps = <<>> THEN 0
  ELSE Last(timestamps)[2] - Last(timestamps)[1]

\* the loop of _build_ffmpeg_filters: duration += end - start
RECURSIVE TotalDuration(_)
TotalDuration(timestamps) ==
  IF timestamps = <<>> THEN 0
  ELSE TotalDuration(Front(timestamps))
       + (Last(timestamps)[2] - Last(timestamps)[1])

\* variant_first_segment_start = min(variant_first_segment_start, start)
RECURSIVE FirstSegmentStart(_)
FirstSegmentStart(timestamps) ==
  IF timestamps = <<>> THEN sys_maxsize
  ELSE LET before == FirstSegmentStart(Front(timestamps))
           start == Last(timestamps)[1]
       IN  IF start < before THEN start ELSE before

\* variant_last_segment_end = max(variant_last_segment_end, end)
RECURSIVE LastSegmentEnd(_)
LastSegmentEnd(timestamps) ==
  IF timestamps = <<>> THEN 0
  ELSE LET before == LastSegmentEnd(Front(timestamps))
           end == Last(timestamps)[2]
       IN  IF end > before THEN end ELSE before

\* Utils.RenderOverlayType values
VARIANT_START == "variant_start"
VARIANT_END == "variant_end"
VIDEO_START == "video_start"
VIDEO_END == "video_end"

\* fault injection: an anchor that matches no case resolves to the video start
overlay_start_default_zero(overlay_type, timestamps, duration) ==
  CASE overlay_type = VIDEO_END -> video_duration - duration
    [] overlay_type = VARIANT_END -> LastSegmentEnd(timestamps) - duration
    [] overlay_type = VARIANT_START -> FirstSegmentStart(timestamps)
    [] OTHER -> 0

\* fault injection: the variantEnd window starts where the last segment ends
overlay_start_at_variant_end(overlay_type, timestamps, duration) ==
  CASE overlay_type = VIDEO_START -> 0
    [] overlay_type = VIDEO_END -> video_duration - duration
    [] overlay_type = VARIANT_END -> LastSegmentEnd(timestamps)
    [] OTHER -> FirstSegmentStart(timestamps)

\* match render_settings.overlay_type
overlay_start_of(overlay_type, timestamps, duration) ==
  CASE overlay_type = VIDEO_START -> 0
    [] overlay_type = VIDEO_END -> video_duration - duration
    [] overlay_type = VARIANT_END -> LastSegmentEnd(timestamps) - duration
    [] OTHER -> FirstSegmentStart(timestamps)

\* fault injection: the fade starts without the safety buffer
fade_out_filter_no_buffer(fade_out, duration) ==
  IF fade_out
  THEN << [op |-> "afade", in |-> << <<"outa", 0>> >>,
           args |-> <<duration - CONFIG_DEFAULT_FADE_OUT_DURATION,
                      CONFIG_DEFAULT_FADE_OUT_DURATION>>,
           out |-> << <<"outa", 0>> >>] >>
  ELSE <<>>

\* fade_out_filter
fade_out_filter_of(fade_out, duration) ==
  IF fade_out
  THEN << Filter("afade", <<Stream("outa")>>,
                 <<duration - CONFIG_DEFAULT_FADE_OUT_DURATION
                     - CONFIG_DEFAULT_FADE_OUT_BUFFER,
                   CONFIG_DEFAULT_FADE_OUT_DURATION>>,
                 <<Stream("outa")>>) >>
  ELSE <<>>

\* _build_ffmpeg_filters(shot_timestamps, has_audio, render_settings, ...):
\* the tuple (full_av_select_filter, music_overlay_select_filter,
\* continuous_audio_select_filter)
build_ffmpeg_filters(timestamps, audio, settings) ==
  LET idx == Len(timestamps)
      video_select_filter ==
        [k \in 1..idx |-> Filter("select", <<Stream("0:v")>>,
                                 timestamps[k], <<Label("v", k - 1)>>)]
      audio_select_filter ==
        IF audio
        THEN [k \in 1..idx |-> Filter("aselect", <<Stream("0:a")>>,
                                      timestamps[k], <<Label("a", k - 1)>>)]
        ELSE <<>>
      select_filter_concat ==
        IF audio
        THEN [m \in 1..(2 * idx) |->
                IF m % 2 = 1 THEN Label("v", (m - 1) \div 2)
                ELSE Label("a", (m - 2) \div 2)]
        ELSE [k \in 1..idx |-> Label("v", k - 1)]
      duration == TotalDuration(timestamps)
      fade_out_filter == fade_out_filter_of(settings.fade_out, duration)
      overlay_start ==
        overlay_start_of(settings.overlay_type, timestamps, duration)
      overlay_window == <<overlay_start, overlay_start + duration>>
      full_av_select_filter ==
        IF audio
        THEN video_select_filter \o audio_select_filter
             \o << Filter("concat", select_filter_concat, <<idx, 1, 1>>,
                          <<Stream("outv"), Stream("outa")>>) >>
             \o fade_out_filter
        ELSE video_select_filter
             \o << Filter("concat", select_filter_concat, <<idx, 1>>,
                          <<Stream("outv")>>) >>
      music_overlay_select_filter ==
        IF audio
        THEN video_select_filter
             \o [k \in 1..idx |->
                   [audio_select_filter[k] EXCEPT !.in = <<Stream("1:a")>>]]
             \o << Filter("aselect", <<Stream("2:a")>>, overlay_window,
                          <<Stream("music")>>) >>
             \o << Filter("concat", select_filter_concat, <<idx, 1, 1>>,
                          <<Stream("outv"), Stream("tempa")>>),
                   Filter("amerge", <<Stream("tempa"), Stream("music")>>,
                          <<2>>, <<Stream("outa")>>) >>
             \o fade_out_filter
        ELSE <<>>
      continuous_audio_select_filter ==
        IF audio
        THEN video_select_filter
             \o << Filter("aselect", <<Stream("0:a")>>, overlay_window,
                          <<Stream("outa")>>) >>
             \o << Filter("concat",
                          SelectSeq(select_filter_concat,
                                    LAMBDA label : label[1] = "v"),
                          <<idx, 1>>, <<Stream("outv")>>) >>
             \o fade_out_filter
        ELSE <<>>
  IN  << full_av_select_filter, music_overlay_select_filter,
         continuous_audio_select_filter >>

\* fault injection: the continuous-audio setting is looked at after the overlay one
choose_filter_music_first(audio, music_overlay, continuous_audio, programs) ==
  IF audio /\ music_overlay
  THEN [filter_complex |-> programs[2], ac |-> 2]
  ELSE IF audio /\ continuous_audio
  THEN [filter_complex |-> programs[3], ac |-> 0]
  ELSE [filter_complex |-> programs[1], ac |-> 0]

\* fault injection: the settings are followed whether or not there is audio
choose_filter_ignores_audio(audio, music_overlay, continuous_audio, programs) ==
  IF continuous_audio
  THEN [filter_complex |-> programs[3], ac |-> 0]
  ELSE IF music_overlay
  THEN [filter_complex |-> programs[2], ac |-> 2]
  ELSE [filter_complex |-> programs[1], ac |-> 0]

\* ffmpeg_filter of _get_variant_ffmpeg_commands (ac = 2 stands for '-ac', '2')
choose_filter(audio, music_overlay, continuous_audio, programs) ==
  IF audio /\ continuous_audio
  THEN [filter_complex |-> programs[3], ac |-> 0]
  ELSE IF audio /\ music_overlay
  THEN [filter_complex |-> programs[2], ac |-> 2]
  ELSE [filter_complex |-> programs[1], ac |-> 0]

\* _get_variant_ffmpeg_commands(...), with the output path the caller appends;
\* programs is the tuple (full_av_select_filter, music_overlay_select_filter,
\* continuous_audio_select_filter)
get_variant_ffmpeg_commands(video_file_path, speech, music, audio, music_overlay, continuous_audio, programs, output_path) ==
  LET chosen == choose_filter(audio, music_overlay, continuous_audio, programs)
  IN  [i |-> <<video_file_path>>
               \o (IF music_overlay /\ speech # None /\ music # None
                   THEN <<speech, music>> ELSE <<>>),
       filter_complex |-> chosen.filter_complex,
       vf |-> None,
       ac |-> chosen.ac,
       map |-> <<Stream("outv")>>
                 \o (IF audio THEN <<Stream("outa")>> ELSE <<>>),
       output |-> output_path]

\* the command of _render_format when no cropped source exists: the
\* horizontal render blurred into the format
blur_command(input_video_path, video_filter, output_path) ==
  [i |-> <<input_video_path>>, filter_complex |-> <<>>, vf |-> video_filter,
   ac |-> 0, map |-> <<>>, output |-> output_path]

(***************************************************************************)
(* render() of the variant "1-<N>" from the call of _render_video_variant  *)
(* on, one step per transcoding run and per upload.                        *)
(***************************************************************************)
\* Utils.RenderFormatType values
HORIZONTAL == "horizontal"
SQUARE == "square"
VERTICAL == "vertical"

\* the paths render() downloaded to
VideoFile == "video"
SpeechFile == "speech"
MusicFile == "music"
SquareCropFile == "square_crop"
VerticalCropFile == "vertical_crop"

\* f'combo_{variant_id}_{format_type[0]}{video_ext}' in the output directory
ComboFile(format_type) ==
  [id |-> 1, of |-> NumVariants, base |-> "combo_" \o format_type]
\* the image assets directory of a format
AssetsDir(format_type) ==
  [id |-> 1, of |-> NumVariants, base |-> "assets_" \o format_type]

\* formats_to_render in insertion order: square, then vertical
StageAfter(stage) ==
  IF stage = HORIZONTAL /\ SQUARE \in render_settings.formats THEN SQUARE
  ELSE IF stage \in {HORIZONTAL, SQUARE} /\ VERTICAL \in render_settings.formats
  THEN VERTICAL
  ELSE "upload"

\* the command _render_format runs for a format of formats_to_render
FormatCommand(format_type) ==
  LET crop_file_path == IF format_type = SQUARE THEN square_video_file_path
                        ELSE vertical_video_file_path
  IN  IF crop_file_path # None
      THEN get_variant_ffmpeg_commands(
             crop_file_path, speech_track_path, music_track_path, has_audio,
             render_settings.use_music_overlay,
             render_settings.use_continuous_audio, filters,
             ComboFile(format_type))
      ELSE blur_command(ComboFile(HORIZONTAL), format_type, ComboFile(format_type))

\* the command about to run at a transcoding stage
StageCommand(stage) ==
  IF stage = HORIZONTAL THEN ffmpeg_cmds ELSE FormatCommand(stage)

\* shot_groups, shot_timestamps, _build_ffmpeg_filters(...)
variant_build_filters ==
  /\ rpc = "start"
  /\ filters' = build_ffmpeg_filters(shot_timestamps(av_segments), has_audio,
                                     render_settings)
  /\ rpc' = "filters"
  /\ UNCHANGED <<av_segments, has_audio, render_settings, speech_track_path,
                 music_track_path, square_video_file_path,
                 vertical_video_file_path, ffmpeg_cmds, ran, output_dir,
                 uploaded>>
  /\ UNCHANGED asset_vars
  /\ UNCHANGED <<fanin_vars, group_vars, slate_vars, text_vars>>

\* ffmpeg_cmds = _get_variant_ffmpeg_commands(video_file_path, ...);
\* ffmpeg_cmds.append(horizontal_combo_path)
variant_get_commands ==
  /\ rpc = "filters"
  /\ ffmpeg_cmds' = get_variant_ffmpeg_commands(
                      VideoFile, speech_track_path, music_track_path,
                      has_audio, render_settings.use_music_overlay,
                      render_settings.use_continuous_audio, filters,
                      ComboFile(HORIZONTAL))
  /\ rpc' = HORIZONTAL
  /\ UNCHANGED <<av_segments, has_audio, render_settings, speech_track_path,
                 music_track_path, square_video_file_path,
                 vertical_video_file_path, filters, ran, output_dir, uploaded>>
  /\ UNCHANGED asset_vars
  /\ UNCHANGED <<fanin_vars, group_vars, slate_vars, text_vars>>

\* what _generate_image_assets can leave behind: image files in the output
\* directory (files), a non-empty list of image URLs (images); fault tells
\* that a step raised or gave nothing.  In turn: all steps worked; the
\* key frame identification raised or answered nothing (the thumbnails are
\* still listed); the thumbnail extraction raised or gave no image; the
\* extraction of an identified key frame raised (the exception handler
\* returns no image although the thumbnails exist)
AssetOutcomes ==
  { [files |-> TRUE, images |-> TRUE, fault |-> FALSE],
    [files |-> TRUE, images |-> TRUE, fault |-> TRUE],
    [files |-> FALSE, images |-> FALSE, fault |-> TRUE],
    [files |-> TRUE, images |-> FALSE, fault |-> TRUE] }

\* what _generate_text_assets can return: the texts, or None after an
\* exception or an empty response
TextOutcomes ==
  { [texts |-> TRUE, fault |-> FALSE], [texts |-> FALSE, fault |-> TRUE] }

\* fault injection: the output directory is uploaded after every format
variant_render_uploads_always(format_type) ==
  /\ rpc = format_type
  /\ ran' = Append(ran, StageCommand(format_type))
  /\ \E assets \in (IF render_settings.generate_image_assets
                    THEN AssetOutcomes
                    ELSE {[files |-> FALSE, images |-> FALSE, fault |-> FALSE]}) :
       LET rendered == output_dir \cup {ComboFile(format_type)}
       IN  /\ uploaded' = uploaded \cup rendered
           /\ output_dir' = rendered \cup (IF assets.files
                                           THEN {AssetsDir(format_type)} ELSE {})
           /\ rendered_paths' =
                [path |-> rendered_paths.path \cup {format_type},
                 images |-> rendered_paths.images
                              \cup (IF assets.images THEN {format_type} ELSE {})]
           /\ asset_fault' = (asset_fault \/ assets.fault)
  /\ rpc' = StageAfter(format_type)
  /\ UNCHANGED <<av_segments, has_audio, render_settings, speech_track_path,
                 music_track_path, square_video_file_path,
                 vertical_video_file_path, filters, ffmpeg_cmds, render_result>>
  /\ UNCHANGED <<fanin_vars, group_vars, slate_vars, text_vars>>

\* fault injection: a failed asset generation step aborts the render
variant_render_asset_fault_aborts(format_type) ==
  /\ rpc = format_type
  /\ ran' = Append(ran, StageCommand(format_type))
  /\ \E assets \in (IF render_settings.generate_image_assets
                    THEN AssetOutcomes
                    ELSE {[files |-> FALSE, images |-> FALSE, fault |-> FALSE]}) :
       LET rendered == output_dir \cup {ComboFile(format_type)}
       IN  /\ uploaded' = IF render_settings.generate_image_assets
                          THEN uploaded \cup rendered ELSE uploaded
           /\ output_dir' = rendered \cup (IF assets.files
                                           THEN {AssetsDir(format_type)} ELSE {})
           /\ rendered_paths' =
                [path |-> rendered_paths.path \cup {format_type},
                 images |-> rendered_paths.images
                              \cup (IF assets.images THEN {format_type} ELSE {})]
           /\ asset_fault' = (asset_fault \/ assets.fault)
           /\ rpc' = IF assets.fault THEN "failed" ELSE StageAfter(format_type)
  /\ UNCHANGED <<av_segments, has_audio, render_settings, speech_track_path,
                 music_track_path, square_video_file_path,
                 vertical_video_file_path, filters, ffmpeg_cmds, render_result>>
  /\ UNCHANGED <<fanin_vars, group_vars, slate_vars, text_vars>>

\* a transcoding run that succeeds: Utils.execute_subprocess_commands for the
\* horizontal format or inside _render_format; with generate_image_assets
\* the output directory is uploaded, then _generate_image_assets runs and
\* logs whatever goes wrong in it; 'images' is set if it returned any
variant_render(format_type) ==
  /\ rpc = format_type
  /\ ran' = Append(ran, StageCommand(format_type))
  /\ \E assets \in (IF render_settings.generate_image_assets
                    THEN AssetOutcomes
                    ELSE {[files |-> FALSE, images |-> FALSE, fault |-> FALSE]}) :
       LET rendered == output_dir \cup {ComboFile(format_type)}
       IN  /\ uploaded' = IF render_settings.generate_image_assets
                          THEN uploaded \cup rendered ELSE uploaded
           /\ output_dir' = rendered \cup (IF assets.files
                                           THEN {AssetsDir(format_type)} ELSE {})
           /\ rendered_paths' =
                [path |-> rendered_paths.path \cup {format_type},
                 images |-> rendered_paths.images
                              \cup (IF assets.images THEN {format_type} ELSE {})]
           /\ asset_fault' = (asset_fault \/ assets.fault)
  /\ rpc' = StageAfter(format_type)
  /\ UNCHANGED <<av_segments, has_audio, render_settings, speech_track_path,
                 music_track_path, square_video_file_path,
                 vertical_video_file_path, filters, ffmpeg_cmds, render_result>>
  /\ UNCHANGED <<fanin_vars, group_vars, slate_vars, text_vars>>

\* a transcoding run that fails: execute_subprocess_commands raises and
\* render() aborts
variant_render_fails(format_type) ==
  /\ rpc = format_type
  /\ ran' = Append(ran, StageCommand(format_type))
  /\ rpc' = "failed"
  /\ UNCHANGED <<av_segments, has_audio, render_settings, speech_track_path,
                 music_track_path, square_video_file_path,
                 vertical_video_file_path, filters, ffmpeg_cmds, output_dir,
                 uploaded>>
  /\ UNCHANGED asset_vars
  /\ UNCHANGED <<fanin_vars, group_vars, slate_vars, text_vars>>

\* StorageService.upload_gcs_dir(output_dir, ...) after the last format;
\* _generate_text_assets if asked for, which logs whatever goes wrong in it;
\* result['variants'], result['images'], result['texts']; return result
variant_upload_dir ==
  /\ rpc = "upload"
  /\ uploaded' = uploaded \cup output_dir
  /\ \E text_assets \in (IF render_settings.generate_text_assets
                         THEN TextOutcomes
                         ELSE {[texts |-> FALSE, fault |-> FALSE]}) :
       /\ render_result' = [variants |-> rendered_paths.path,
                            images |-> rendered_paths.images,
                            texts |-> text_assets.texts]
       /\ asset_fault' = (asset_fault \/ text_assets.fault)
  /\ rpc' = "returned"
  /\ UNCHANGED <<av_segments, has_audio, render_settings, speech_track_path,
                 music_track_path, square_video_file_path,
                 vertical_video_file_path, filters, ffmpeg_cmds, ran,
                 output_dir, rendered_paths>>
  /\ UNCHANGED <<fanin_vars, group_vars, slate_vars, text_vars>>

\* render(): combo.update(rendered_variant_paths), json.dump(rendered_combos)
\* into combos_dir, upload_gcs_dir, check_finalise_render
variant_write_partial ==
  /\ rpc = "returned"
  /\ output_dir' = output_dir \cup {PartialFile(1)}
  /\ uploaded' = uploaded \cup output_dir'
  /\ rpc' = "done"
  /\ UNCHANGED <<av_segments, has_audio, render_settings, speech_track_path,
                 music_track_path, square_video_file_path,
                 vertical_video_file_path, filters, ffmpeg_cmds, ran>>
  /\ UNCHANGED asset_vars
  /\ UNCHANGED <<fanin_vars, group_vars, slate_vars, text_vars>>

(***************************************************************************)
(* The inputs of a variant's render.                                       *)
(***************************************************************************)
\* overlay_type: the four anchors, absent, or a value that is none of them
OverlayTypes == {VARIANT_START, VARIANT_END, VIDEO_START, VIDEO_END, None, "other"}

RenderSettings ==
  [generate_image_assets : BOOLEAN,
   generate_text_assets : BOOLEAN,
   formats : SUBSET {SQUARE, VERTICAL},
   use_music_overlay : BOOLEAN,
   use_continuous_audio : BOOLEAN,
   fade_out : BOOLEAN,
   overlay_type : OverlayTypes]

RenderStart ==
  /\ rpc = "start"
  /\ filters = <<>>
  /\ ffmpeg_cmds = None
  /\ ran = <<>>
  /\ output_dir = {}
  /\ uploaded = {}
  /\ rendered_paths = [path |-> {}, images |-> {}]
  /\ render_result = None
  /\ asset_fault = FALSE

\* the filter synthesis on every variant of one to MaxSegs segments, for the
\* horizontal format alone
FilterVariants == VariantSegments(MaxSegs) \ {<<>>}
FilterSettings ==
  {s \in RenderSettings :
     ~s.generate_image_assets /\ ~s.generate_text_assets /\ s.formats = {}}

InitFilter ==
  /\ InitFanIn("strong") /\ SlateOff /\ TextOff
  /\ GroupOff
  /\ av_segments \in FilterVariants
  /\ has_audio \in BOOLEAN
  /\ render_settings \in FilterSettings
  /\ \E tracks \in BOOLEAN :
       /\ speech_track_path = IF tracks THEN SpeechFile ELSE None
       /\ music_track_path = IF tracks THEN MusicFile ELSE None
  /\ square_video_file_path = None
  /\ vertical_video_file_path = None
  /\ RenderStart

NextFilter ==
  \/ variant_build_filters
  \/ variant_get_commands

SpecFilter == InitFilter /\ [][NextFilter]_vars

\* the whole render of a variant of no, one or all segments, in every
\* combination of formats, cropped sources and image asset generation
RenderVariants == VariantSegments(1) \cup {Catalogue}
RenderSettingsPlain ==
  {s \in RenderSettings : ~s.fade_out /\ s.overlay_type = None}

InitRender ==
  /\ InitFanIn("strong") /\ SlateOff /\ TextOff
  /\ GroupOff
  /\ av_segments \in RenderVariants
  /\ has_audio \in BOOLEAN
  /\ render_settings \in RenderSettingsPlain
  /\ \E tracks \in BOOLEAN :
       /\ speech_track_path = IF tracks THEN SpeechFile ELSE None
       /\ music_track_path = IF tracks THEN MusicFile ELSE None
  /\ square_video_file_path \in {None, SquareCropFile}
  /\ vertical_video_file_path \in {None, VerticalCropFile}
  /\ RenderStart

NextRender ==
  \/ variant_build_filters
  \/ variant_get_commands
  \/ \E format_type \in {HORIZONTAL, SQUARE, VERTICAL} : variant_render(format_type)
  \/ \E format_type \in {HORIZONTAL, SQUARE, VERTICAL} : variant_render_fails(format_type)
  \/ variant_upload_dir
  \/ variant_write_partial

SpecRender == InitRender /\ [][NextRender]_vars

(***************************************************************************)
(* Part IV.  The end-slate job: EndSlateProcessor.process().  A path is a  *)
(* sequence of pieces: folder names, "/", and for a file its stem and its  *)
(* extension.                                                              *)
(***************************************************************************)
\* the most files the render folder holds
MaxFiles == 3

\* trigger_file.gcs_root_folder, config['rendered_video_folder'] and the
\* folder name process() builds for the copy
gcs_root_folder == "root"
RenderFolderPiece == "render"
CtaFolderPiece == "CTA"

\* stems that match combo_\d+_[hsv] at their end
ComboStems == {"combo_1_h", "combo_2_v"}
text_extensions == {".json", ".txt", ".yaml", ".yml", ".xml", ".html"}
\* str.lower() on the extensions of the folder's files
Lower(ext) == IF ext = ".JSON" THEN ".json" ELSE ext

\* re.search(r'combo_\d+_[hsv]\.mp4$', file_path)
is_combo_video(file_path) ==
  /\ Len(file_path) >= 2
  /\ Last(file_path) = ".mp4"
  /\ file_path[Len(file_path) - 1] \in ComboStems

\* any(file_path.lower().endswith(ext) for ext in text_extensions)
is_text_file(file_path) == Lower(Last(file_path)) \in text_extensions

\* str.split(sep) for a separator of one piece
RECURSIVE SplitOn(_, _)
SplitOn(s, sep) ==
  IF \A k \in 1..Len(s) : s[k] # sep
  THEN <<s>>
  ELSE LET at == CHOOSE k \in 1..Len(s) :
                   s[k] = sep /\ \A m \in 1..(k - 1) : s[m] # sep
       IN  <<SubSeq(s, 1, at - 1)>> \o SplitOn(SubSeq(s, at + 1, Len(s)), sep)

\* str.lstrip('/')
RECURSIVE LStripSlash(_)
LStripSlash(s) ==
  IF s # <<>> /\ Head(s) = "/" THEN LStripSlash(Tail(s)) ELSE s

\* EndSlateProcessor._get_relative_path; os.path.basename is what follows
\* the last "/"
get_relative_path(file_gcs_path, folder_name) ==
  LET parts == SplitOn(file_gcs_path, folder_name)
  IN  IF Len(parts) > 1 THEN LStripSlash(parts[2])
      ELSE Last(SplitOn(file_gcs_path, "/"))

\* str(pathlib.Path(gcs_root_folder, folder, relative_path))
FolderPath(folder, relative_path) ==
  <<gcs_root_folder, "/", folder, "/">> \o relative_path

\* the files a render folder may hold: rendered videos, result files, a
\* video and a result-like file that are not combo videos, images in a
\* sub-folder
FolderCatalogue ==
  << <<"combo_1_h", ".mp4">>, <<"combo_2_v", ".mp4">>, <<"combo_x", ".mp4">>,
     <<"combos", ".json">>, <<"NOTES", ".JSON">>, <<"combo_1_h", ".txt">>,
     <<"assets_h", "/", "1", ".png">>, <<"input", ".bin">> >>

\* the bytes of a file of the render folder, of a video with the slate
\* appended, of a text file after the rewrite
Bytes(kind, relative_path) == [kind |-> kind, of |-> relative_path]
\* what a download of a missing object gives
NoObject == Bytes("none", <<>>)
\* the bytes of the object at a path
ObjectAt(objects, path) ==
  IF \E o \in objects : o.path = path
  THEN (CHOOSE o \in objects : o.path = path).bytes
  ELSE NoObject
\* StorageService.upload_gcs_file
upload_gcs_file(objects, path, bytes) ==
  {o \in objects : o.path # path} \cup {[path |-> path, bytes |-> bytes]}

\* the sub-sequence of the elements with the property
RECURSIVE SelectSeqOf(_, _)
SelectSeqOf(s, keep) ==
  IF s = <<>> THEN <<>>
  ELSE (IF Head(s) \in keep THEN <<Head(s)>> ELSE <<>>) \o SelectSeqOf(Tail(s), keep)

\* Step 6 of process(): the three lists, in the order they are visited
video_files == SelectSeqOf(all_files, {f \in SeqToSet(all_files) : is_combo_video(f)})
text_files == SelectSeqOf(all_files, {f \in SeqToSet(all_files) : is_text_file(f)})
other_files ==
  SelectSeqOf(all_files, {f \in SeqToSet(all_files) :
                            f \notin SeqToSet(video_files)
                            /\ f \notin SeqToSet(text_files)})

\* Steps 1 to 6 of process(): config, image, dimensions, listing.  The
\* listing excludes nothing but folder markers.
slate_setup ==
  /\ epc = "start"
  /\ epc' = "files"
  /\ todo' = video_files \o text_files \o other_files
  /\ UNCHANGED <<bucket, all_files, attempted, skipped, failed_file>>
  /\ UNCHANGED <<fanin_vars, group_vars, render_vars, text_vars>>

\* _load_config, _download_image or _get_image_dimensions raises
slate_setup_raises ==
  /\ epc = "start"
  /\ epc' = "raised"
  /\ UNCHANGED <<bucket, all_files, todo, attempted, skipped, failed_file>>
  /\ UNCHANGED <<fanin_vars, group_vars, render_vars, text_vars>>

\* the handler of a file: download; an empty download is logged and the
\* handler returns; otherwise the treated bytes are uploaded to the same
\* relative path of the new folder
Handle(file, treatment) ==
  /\ epc = "files"
  /\ todo # <<>>
  /\ Head(todo) = file
  /\ attempted' = attempted \cup {file}
  /\ todo' = Tail(todo)
  /\ \E downloaded \in BOOLEAN :
       LET relative_path == get_relative_path(file, RenderFolderPiece)
           content == ObjectAt(bucket, file)
       IN  IF downloaded
           THEN /\ bucket' = upload_gcs_file(
                              bucket, FolderPath(CtaFolderPiece, relative_path),
                              IF treatment = "copy" THEN content
                              ELSE Bytes(treatment, content.of))
                /\ UNCHANGED skipped
           ELSE /\ skipped' = skipped \cup {file}
                /\ UNCHANGED bucket
  /\ UNCHANGED <<epc, all_files, failed_file>>
  /\ UNCHANGED <<fanin_vars, group_vars, render_vars, text_vars>>

\* Step 7: _process_video_with_endslate
process_video_with_endslate(video_file) ==
  /\ is_combo_video(video_file)
  /\ Handle(video_file, "slate")

\* Step 8: _copy_and_update_text_file
copy_and_update_text_file(text_file) ==
  /\ is_text_file(text_file)
  /\ Handle(text_file, "rewrite")

\* Step 9: _copy_file_as_is
copy_file_as_is(other_file) ==
  /\ ~is_combo_video(other_file)
  /\ ~is_text_file(other_file)
  /\ Handle(other_file, "copy")

\* a handler raises (ffprobe or ffmpeg on a video, a storage call on any
\* file): process() logs the exception and raises it again
handler_raises(file) ==
  /\ epc = "files"
  /\ todo # <<>>
  /\ Head(todo) = file
  /\ attempted' = attempted \cup {file}
  /\ todo' = Tail(todo)
  /\ failed_file' = file
  /\ epc' = "raised"
  /\ UNCHANGED <<bucket, all_files, skipped>>
  /\ UNCHANGED <<fanin_vars, group_vars, render_vars, text_vars>>

\* the three loops are over: 'Processing completed successfully!'
slate_completed ==
  /\ epc = "files"
  /\ todo = <<>>
  /\ epc' = "completed"
  /\ UNCHANGED <<bucket, all_files, todo, attempted, skipped, failed_file>>
  /\ UNCHANGED <<fanin_vars, group_vars, render_vars, text_vars>>

\* the render folders of up to MaxFiles files, in the order of the listing
RECURSIVE SubSeqs(_, _)
SubSeqs(s, n) ==
  IF s = <<>> \/ n = 0 THEN {<<>>}
  ELSE SubSeqs(Tail(s), n)
       \cup {<<Head(s)>> \o t : t \in SubSeqs(Tail(s), n - 1)}

InitSlate ==
  /\ InitFanIn("strong")
  /\ TextOff
  /\ GroupOff
  /\ RenderOff
  /\ epc = "start"
  /\ \E folder \in SubSeqs(FolderCatalogue, MaxFiles) :
       /\ all_files = [k \in 1..Len(folder) |-> FolderPath(RenderFolderPiece, folder[k])]
       /\ bucket = {[path |-> FolderPath(RenderFolderPiece, folder[k]),
                      bytes |-> Bytes("file", folder[k])] : k \in 1..Len(folder)}
  /\ todo = <<>>
  /\ attempted = {}
  /\ skipped = {}
  /\ failed_file = None

NextSlate ==
  \/ slate_setup
  \/ slate_setup_raises
  \/ \E file \in SeqToSet(all_files) : process_video_with_endslate(file)
  \/ \E file \in SeqToSet(all_files) : copy_and_update_text_file(file)
  \/ \E file \in SeqToSet(all_files) : copy_file_as_is(file)
  \/ \E file \in SeqToSet(all_files) : handler_raises(file)
  \/ slate_completed

SpecSlate == InitSlate /\ [][NextSlate]_vars

(***************************************************************************)
(* Part IV, the text files.  A text is a sequence of characters; the title *)
(* marker and its separator are single pieces.                             *)
(***************************************************************************)
\* the most pieces a text file is made of
MaxPieces == 3

\* str.replace(old, new), old not empty
RECURSIVE Replace(_, _, _)
Replace(s, old, new) ==
  IF Len(s) < Len(old) THEN s
  ELSE IF SubSeq(s, 1, Len(old)) = old
  THEN new \o Replace(SubSeq(s, Len(old) + 1, Len(s)), old, new)
  ELSE <<Head(s)>> \o Replace(Tail(s), old, new)

\* str.split(sep)[0]
RECURSIVE SplitHead(_, _)
SplitHead(s, sep) ==
  IF Len(s) < Len(sep) THEN s
  ELSE IF SubSeq(s, 1, Len(sep)) = sep THEN <<>>
  ELSE <<Head(s)>> \o SplitHead(Tail(s), sep)

\* urllib.parse.quote(s, safe=''): letters, digits and '_.-~' are kept, the
\* other characters become %XX
RECURSIVE quote(_)
quote(s) ==
  IF s = <<>> THEN <<>>
  ELSE (IF Head(s) = " " THEN <<"%", "2", "0">>
        ELSE IF Head(s) = "/" THEN <<"%", "2", "F">>
        ELSE IF Head(s) = "%" THEN <<"%", "2", "5">>
        ELSE <<Head(s)>>) \o quote(Tail(s))

\* Step 4 of process(): the name of the new folder
cta_folder_of(folder, timestamp) ==
  LET folder_name_base ==
        SplitHead(Replace(folder, <<"-", "-", "c", "o", "m", "b", "o", "s">>, <<>>),
                  <<"-", "-">>)
  IN  <<"C", "T", "A", " ", "-", " ">> \o folder_name_base \o <<"-", "-">>
        \o timestamp \o <<"-", "c", "o", "m", "b", "o", "s">>

\* EndSlateProcessor._update_folder_references
update_folder_references(text, original, cta) ==
  LET original_encoded == quote(original)
      cta_encoded == quote(cta)
  IN  Replace(Replace(text, original, cta), original_encoded, cta_encoded)

\* the render folders: '<timestamp>-combos' as Combiner names it, a name
\* with the '--combos' ending that process() strips, names with a space
RenderFolderNames ==
  { <<"1", "-", "c", "o", "m", "b", "o", "s">>,
    <<"a", "-", "-", "1", "-", "-", "c", "o", "m", "b", "o", "s">>,
    <<"a", " ", "b">>,
    <<"a", " ", "b", "-", "-", "1", "-", "-", "c", "o", "m", "b", "o", "s">> }
\* the texts of up to n pieces
RECURSIVE Texts(_, _)
Texts(pieces, n) ==
  IF n = 0 THEN {<<>>}
  ELSE Texts(pieces, n - 1)
       \cup {p \o t : p \in pieces, t \in Texts(pieces, n - 1)}

\* a text file mentions the folder plainly or percent-encoded, between
\* other characters
PiecesOf(folder) == {folder, quote(folder), <<"x">>, <<"/">>}

\* process() names the new folder; int(time.time() * 1000) is "2"
rewrite_name_folder ==
  /\ wpc = "start"
  /\ \E timestamp \in {<<"2">>} :
       cta_folder' = cta_folder_of(original_folder, timestamp)
  /\ wpc' = "named"
  /\ UNCHANGED <<text_content, original_folder, updated_content, applications>>
  /\ UNCHANGED <<fanin_vars, group_vars, render_vars, slate_vars>>

\* _copy_and_update_text_file: the content with the folder substituted
rewrite_text_file ==
  /\ wpc = "named"
  /\ updated_content' = update_folder_references(text_content, original_folder, cta_folder)
  /\ wpc' = "rewritten"
  /\ UNCHANGED <<text_content, original_folder, cta_folder, applications>>
  /\ UNCHANGED <<fanin_vars, group_vars, render_vars, slate_vars>>

InitRewrite ==
  /\ InitFanIn("strong")
  /\ SlateOff
  /\ GroupOff
  /\ RenderOff
  /\ wpc = "start"
  /\ original_folder \in RenderFolderNames
  /\ text_content \in Texts(PiecesOf(original_folder), MaxPieces)
  /\ cta_folder = <<>>
  /\ updated_content = <<>>
  /\ applications = 0

NextRewrite ==
  \/ rewrite_name_folder
  \/ rewrite_text_file

SpecRewrite == InitRewrite /\ [][NextRewrite]_vars

(***************************************************************************)
(* Part IV, the structured result file.  A JSON text is its layout and the *)
(* dict it holds, a dict a sequence of entries with distinct keys; a       *)
(* variant is a function from its field names to texts.                    *)
(***************************************************************************)
\* the most entries of a result file, the most applications of the update
MaxEntries == 2
MaxApplications == 3

\* s has the consecutive pieces of part
Contains(s, part) ==
  \E k \in 1..(Len(s) - Len(part) + 1) : SubSeq(s, k, k + Len(part) - 1) = part

\* json.loads(content); raises json.JSONDecodeError on a text that is no JSON
json_loads(text) == text.data
\* json.dumps(data, indent=2, ensure_ascii=False)
json_dumps(data) == [layout |-> "indent2", data |-> data]

\* the title and the description of one variant
update_variant(variant) ==
  LET titled ==
        IF "title" \in DOMAIN variant
           /\ ~Contains(variant.title, <<"WITH END SLATE">>)
        THEN [variant EXCEPT !.title = @ \o <<" - ", "WITH END SLATE">>]
        ELSE variant
  IN  IF "description" \in DOMAIN titled
         /\ ~Contains(titled.description, <<" ", " ", " ">>)
      THEN [titled EXCEPT !.description = @ \o <<" ", " ", " ", " ">>]
      ELSE titled

\* EndSlateProcessor._update_combos_json
update_combos_json(text) ==
  IF text.layout = "invalid" THEN text
  ELSE LET data == json_loads(text)
       IN  json_dumps([k \in 1..Len(data) |->
                         IF data[k].key # <<>> /\ Head(data[k].key) = "_"
                         THEN [key |-> data[k].key,
                               variant |-> update_variant(data[k].variant)]
                         ELSE data[k]])

\* titles and descriptions: plain, already updated, with a run of three
\* spaces inside
VariantDicts ==
  LET Titles == { <<"t">>, <<"t", " - ", "WITH END SLATE">> }
      Descriptions == { <<"d", " ", "d">>, <<"d", " ", " ", " ", "d">>,
                        <<"d", " ", " ", " ", " ">> }
  IN  {[title |-> t, description |-> d] : t \in Titles, d \in Descriptions}
      \cup {[title |-> t] : t \in Titles}
      \cup {[description |-> d] : d \in Descriptions}
\* rendered_combos[f'_{variant_id}'] and a key of another kind
ComboKeys == << <<"_", "1">>, <<"x">> >>

\* the dicts of up to n entries with the first n keys
RECURSIVE Dicts(_)
Dicts(n) ==
  IF n = 0 THEN {<<>>}
  ELSE Dicts(n - 1)
       \cup {Append(d, [key |-> ComboKeys[Len(d) + 1], variant |-> v]) :
               d \in {e \in Dicts(n - 1) : Len(e) = n - 1}, v \in VariantDicts}
\* the keys at hand are two
ComboDicts == Dicts(IF MaxEntries < Len(ComboKeys) THEN MaxEntries ELSE Len(ComboKeys))
             \cup {<<[key |-> ComboKeys[2], variant |-> v]>> : v \in VariantDicts}

JsonTexts ==
  {[layout |-> l, data |-> d] : l \in {"compact", "indent2"}, d \in ComboDicts}
  \cup {[layout |-> "invalid", data |-> <<>>]}

\* _update_combos_json applied to the content at hand
combos_update ==
  /\ wpc = "combos"
  /\ applications < MaxApplications
  /\ updated_content' = update_combos_json(updated_content)
  /\ applications' = applications + 1
  /\ UNCHANGED <<wpc, text_content, original_folder, cta_folder>>
  /\ UNCHANGED <<fanin_vars, group_vars, render_vars, slate_vars>>

InitCombos ==
  /\ InitFanIn("strong")
  /\ SlateOff
  /\ GroupOff
  /\ RenderOff
  /\ wpc = "combos"
  /\ text_content \in JsonTexts
  /\ updated_content = text_content
  /\ original_folder = <<>>
  /\ cta_folder = <<>>
  /\ applications = 0

SpecCombos == InitCombos /\ [][combos_update]_vars

(***************************************************************************)
(* Properties of the fan-in protocol.                                      *)
(***************************************************************************)
MarkerWriters == {v \in Variants : wrote[v]}
\* every worker ran render() once, to completion
AllRanOnce == retries = 0 /\ \A v \in Variants : pc[v] = "done"
MarkerExists == FinaliseFile(NumVariants) \in DOMAIN files
PartialsIn(S) == {v \in Variants : PartialFile(v) \in S}

\* C1 as stated: when each of the N workers has run render() to completion,
\* exactly one of them found the count equal to N and wrote the finalise file.
C1_ExactlyOneWorkerWritesMarker ==
  AllRanOnce => Cardinality(MarkerWriters) = 1

\* C1 (amended): when each of the N workers has run render() to completion
\* against a listing that shows every completed upload, at least one of them
\* found the count equal to N and wrote the finalise file; several may have,
\* each uploading the same finalise file.
C1_SomeWorkerWritesMarker ==
  AllRanOnce =>
    /\ Cardinality(MarkerWriters) >= 1
    /\ MarkerExists
    /\ \A v \in MarkerWriters : Len(listing[v]) = NumVariants

\* two workers both found the count equal to N and both wrote the finalise file
C1_Witness == AllRanOnce /\ Cardinality(MarkerWriters) >= 2

\* C2: the finalise file exists only if every variant's partial file exists,
\* and a check that listed fewer than N partial files did not write it.
C2_MarkerOnlyWhenAllRendered ==
  /\ MarkerExists => AllPartials \subseteq DOMAIN files
  /\ \A v \in Variants :
       Cardinality(PartialsIn(SeqToSet(listing[v]))) < NumVariants => ~wrote[v]

\* one check found a variant missing and wrote nothing, a later one wrote
C2_Witness ==
  /\ MarkerExists
  /\ \E v \in Variants :
       /\ pc[v] = "done"
       /\ Cardinality(PartialsIn(SeqToSet(listing[v]))) < NumVariants
       /\ ~wrote[v]

\* C3 as stated: with listings that show an upload only after a delay, once
\* every worker has rendered and finished and the delay has passed, the
\* finalise file has been written (no worker runs again to write it later).
C3_MarkerWrittenDespiteListingDelay ==
  (AllRanOnce /\ AllPartials \subseteq visible) => MarkerExists

\* C4 as stated: a repeated render() that lists all N partial files finds the
\* count equal to N and uploads the finalise file again, whatever else the
\* batch folder holds.
C4_RerunFindsCountAndRewritesMarker ==
  \A v \in Variants :
    (rerun[v] /\ pc[v] = "done" /\ AllPartials \subseteq SeqToSet(listing[v]))
      => (Len(listing[v]) = NumVariants /\ wrote[v])

\* C5: a finalise_render() run that follows another one, with no partial file
\* uploaded since the earlier run read the folder, uploads a combined file
\* equal item by item, in order, to the one already there.
C5_FinaliseTwiceIdentical ==
  [][(finalise_render_upload /\ quiet = 2) =>
       (CombinedFile \in DOMAIN files /\ files'[CombinedFile] = files[CombinedFile])]_vars

\* the second of two such runs has uploaded its combined file
C5_Witness ==
  /\ quiet = 2
  /\ fin_pc = "idle"
  /\ CombinedFile \in DOMAIN files
  /\ Len(files[CombinedFile]) = NumVariants

\* C6 as stated: the mapping finalise_render() builds holds, for every
\* partial file of the folder, that file's key with that file's value.
C6_CombinedIsUnionOfPartials ==
  [][finalise_render_merge =>
       \A v \in Variants :
         PartialFile(v) \in visible =>
           /\ HasKey(output', v)
           /\ Lookup(output', v) = Lookup(files[PartialFile(v)], v)]_vars

\* C7: while a variant's transcoding has never succeeded, its partial file
\* is absent, fewer than N partial files exist and the finalise file is
\* absent; a run that failed has listed nothing and written nothing.
C7_FailedRenderWritesNothing ==
  /\ \A v \in Variants \ rendered_ok :
       /\ PartialFile(v) \notin DOMAIN files
       /\ Cardinality(PartialsIn(DOMAIN files)) < NumVariants
       /\ ~MarkerExists
  /\ \A v \in Variants :
       pc[v] = "failed" => (listing[v] = <<>> /\ ~wrote[v])

\* a variant's render failed twice while every other variant finished
C7_Witness ==
  \E v \in Variants :
    /\ pc[v] = "failed"
    /\ rerun[v]
    /\ v \notin rendered_ok
    /\ \A w \in Variants \ {v} : pc[w] = "done"

(***************************************************************************)
(* Properties of the segment grouper.                                      *)
(***************************************************************************)
Returned == gpc = "done"

\* C8: the three inputs of the docstring give the three documented results.
C8_DocumentedExamples ==
  Returned =>
    /\ av_segment_ids = DocExample1 =>
         result = << << <<"1">>, <<"4", ".", "3">> >>, << <<"5">>, <<"5">> >> >>
    /\ av_segment_ids = DocExample2 =>
         result = << << <<"1">>, <<"3">> >>,
                     << <<"4", ".", "2">>, <<"4", ".", "4">> >>,
                     << <<"5">>, <<"5">> >> >>
    /\ av_segment_ids = DocExample3 =>
         result = << << <<"5">>, <<"5">> >>, << <<"1">>, <<"3">> >> >>

C8_Witness ==
  /\ Returned
  /\ av_segment_ids = DocExample1
  /\ Len(result) = 2

RECURSIVE MemberCount(_)
MemberCount(ranges) ==
  IF ranges = <<>> THEN 0
  ELSE (ranges[1][2] - ranges[1][1] + 1) + MemberCount(Tail(ranges))

\* C9: the returned groups are contiguous runs of the input in input order:
\* member counts sum to the input length, every position lies in exactly one
\* group, groups follow each other without reordering, and each tuple holds
\* the first and the last id of its run.
C9_GroupsPartitionInput ==
  Returned =>
    LET n == Len(av_segment_ids)
        g == Len(result)
    IN  /\ Len(spans) = g
        /\ MemberCount(spans) = n
        /\ \A p \in 0..(n - 1) :
             Cardinality({k \in 1..g : spans[k][1] <= p /\ p <= spans[k][2]}) = 1
        /\ \A k \in 1..g :
             /\ spans[k][1] <= spans[k][2]
             /\ result[k] = <<av_segment_ids[spans[k][1] + 1],
                              av_segment_ids[spans[k][2] + 1]>>
        /\ \A k \in 1..(g - 1) : spans[k + 1][1] = spans[k][2] + 1
        /\ (n > 0) => (spans[1][1] = 0 /\ spans[g][2] = n - 1)

\* a call that returned several groups, one of them with several members
C9_Witness ==
  /\ Returned
  /\ Len(result) >= 2
  /\ \E k \in 1..Len(spans) : spans[k][2] > spans[k][1]

\* the numeric parts of an id
IdNumbers(id) == LET parts == Split(id) IN [k \in 1..Len(parts) |-> IntOf(parts[k])]

\* the two rules of C10, on numeric parts
PlainIncrement(a, b) ==
  /\ Len(a) = Len(b)
  /\ Front(a) = Front(b)
  /\ Last(b) = Last(a) + 1
EntersSubLevel(a, b) == b = Front(a) \o <<Last(a) + 1, 1>>

\* C10: for ids made of non-negative integers, _is_sequential_segments
\* returns True exactly for a plain increment of the last part or for the
\* step to "<incremented id>.1", and False in every other case.
C10_SequentialExactlyTwoRules ==
  cmp.made =>
    (cmp.ret <=> (\/ PlainIncrement(IdNumbers(cmp.cur), IdNumbers(cmp.nxt))
                  \/ EntersSubLevel(IdNumbers(cmp.cur), IdNumbers(cmp.nxt))))

\* the sub-level rule decided a comparison whose last part carried (9 -> 10)
C10_Witness ==
  /\ cmp.made
  /\ cmp.ret
  /\ EntersSubLevel(IdNumbers(cmp.cur), IdNumbers(cmp.nxt))
  /\ Last(IdNumbers(cmp.cur)) = 9

\* some part of the id is not a number
HasNonNumericPart(id) ==
  LET parts == Split(id) IN \E k \in 1..Len(parts) : RaisesValueError(parts[k])

\* C11 as stated: when either id of a comparison has a non-numeric part, in
\* the last position or in a prefix position, _is_sequential_segments
\* returns False (and the grouper starts a new group).
C11_NonNumericIsNotSequential ==
  (cmp.made /\ (HasNonNumericPart(cmp.cur) \/ HasNonNumericPart(cmp.nxt)))
    => ~cmp.ret

\* the adjacent pairs of the input that are not sequential
Breaks ==
  {p \in 1..(Len(av_segment_ids) - 1) :
     ~is_sequential_segments(av_segment_ids[p], av_segment_ids[p + 1])}

\* steps the scan has left at most: two per id not yet passed
Rank ==
  IF gpc = "done" THEN 0
  ELSE IF gpc = "outer" THEN 2 * (Len(av_segment_ids) - i) + 1
  ELSE 2 * (Len(av_segment_ids) - j)

\* the indexes of the scan are inside the input
InRange ==
  /\ 0 <= i /\ i <= Len(av_segment_ids)
  /\ gpc = "inner" => (i <= j /\ j < Len(av_segment_ids))

\* every group is a run of sequential neighbours that the next id does not
\* continue, and the groups are one more than the breaks of the input
GreedyMaximal ==
  LET g == Len(result)
  IN  /\ \A k \in 1..g : \A p \in (spans[k][1] + 1)..spans[k][2] :
           is_sequential_segments(av_segment_ids[p], av_segment_ids[p + 1])
      /\ \A k \in 1..(g - 1) :
           ~is_sequential_segments(av_segment_ids[spans[k][2] + 1],
                                   av_segment_ids[spans[k + 1][1] + 1])
      /\ (Len(av_segment_ids) > 0) => (g = 1 + Cardinality(Breaks))

\* C12: in the returned grouping every adjacent pair inside a group is
\* sequential, the last id of a group and the first id of the next are not,
\* and a non-empty input gives one group more than it has non-sequential
\* adjacent pairs (the returning step hands back the grouping built, as it
\* is); every step of the scan keeps its indexes inside the input and brings
\* it closer to the end of the input, so it returns after at most two steps
\* per id.
C12_GreedyMaximalGroups ==
  [][/\ Rank' < Rank
     /\ Rank' >= 0
     /\ InRange'
     /\ Returned' => (GreedyMaximal /\ UNCHANGED <<av_segment_ids, result, spans>>)]_vars

\* a returned grouping of three ids with one break and one group of two
C12_Witness ==
  /\ Returned
  /\ Len(av_segment_ids) = 3
  /\ Cardinality(Breaks) = 1
  /\ Len(result) = 2
  /\ \E k \in 1..2 : spans[k][2] = spans[k][1] + 1

(***************************************************************************)
(* Properties of the filter synthesis and of the variant's render.         *)
(***************************************************************************)
\* _build_ffmpeg_filters has returned
Built == rpc \notin {"off", "start"}
\* the command of the horizontal format has been built
CommandBuilt == rpc \notin {"off", "start", "filters"}
full_av_select_filter == filters[1]
music_overlay_select_filter == filters[2]
continuous_audio_select_filter == filters[3]
\* the programs that were synthesized ('' is not a program)
Programs == {p \in {filters[1], filters[2], filters[3]} : p # <<>>}

OfOp(program, op) == SelectSeq(program, LAMBDA f : f.op = op)
\* the video select branches and the per-shot audio select branches
VideoSelects(program) == OfOp(program, "select")
AudioSelects(program) ==
  SelectSeq(program, LAMBDA f : f.op = "aselect" /\ f.out[1][1] = "a")
\* the overlay window of a program, if it has one
Windows(program) ==
  SelectSeq(program, LAMBDA f : f.op = "aselect" /\ f.out[1][1] # "a")

\* the positions after which the creative breaks: the next id is not sequential
SegmentBreaks ==
  {p \in 1..(Len(av_segments) - 1) :
     ~is_sequential_segments(av_segments[p].av_segment_id,
                             av_segments[p + 1].av_segment_id)}
\* the m-th smallest member of a set of numbers
Nth(S, m) == CHOOSE x \in S : Cardinality({y \in S : y < x}) = m - 1
\* the shot groups: maximal runs of sequential segments
ShotGroupCount == Cardinality(SegmentBreaks) + 1
ShotGroups ==
  LET breaks == SegmentBreaks
      starts == {1} \cup {p + 1 : p \in breaks}
      ends == breaks \cup {Len(av_segments)}
  IN  [m \in 1..(Cardinality(breaks) + 1) |->
         [first |-> av_segments[Nth(starts, m)],
          last |-> av_segments[Nth(ends, m)]]]

\* C13 as stated: every program has one video select branch per referenced
\* segment, in creative order, each with that segment's own (start, end),
\* as many audio select branches when the program selects the source audio
\* per branch, and one concat with n equal to the number of segments.
C13_OneBranchPerSegment ==
  Built =>
    \A p \in Programs :
      LET k == Len(av_segments)
      IN  /\ Len(VideoSelects(p)) = k
          /\ \A m \in 1..k :
               VideoSelects(p)[m].args = <<av_segments[m].start_s,
                                           av_segments[m].end_s>>
          /\ AudioSelects(p) # <<>> => Len(AudioSelects(p)) = k
          /\ Len(OfOp(p, "concat")) = 1
          /\ OfOp(p, "concat")[1].args[1] = k

\* C13 (amended): every program has one video select branch per shot group,
\* in creative order, from the start of the group's first segment to the end
\* of its last segment (sequential segments share one select interval), as
\* many audio select branches with the same intervals when audio is
\* selected per branch, and one concat with n equal to the number of shot
\* groups; the full and the music overlay program select audio per branch.
C13_OneBranchPerShotGroup ==
  Built =>
    /\ has_audio => Programs = {filters[1], filters[2], filters[3]}
    /\ ~has_audio => Programs = {filters[1]}
    /\ has_audio => /\ Len(AudioSelects(full_av_select_filter)) = ShotGroupCount
                    /\ Len(AudioSelects(music_overlay_select_filter)) = ShotGroupCount
    /\ \A p \in Programs :
         LET groups == ShotGroups
             g == Len(groups)
         IN  /\ Len(VideoSelects(p)) = g
             /\ \A m \in 1..g :
                  /\ VideoSelects(p)[m].args = <<groups[m].first.start_s,
                                                 groups[m].last.end_s>>
                  /\ VideoSelects(p)[m].out = <<Label("v", m - 1)>>
             /\ \A m \in 1..Len(AudioSelects(p)) :
                  /\ AudioSelects(p)[m].args = VideoSelects(p)[m].args
                  /\ AudioSelects(p)[m].out = <<Label("a", m - 1)>>
             /\ Len(OfOp(p, "concat")) = 1
             /\ OfOp(p, "concat")[1].args[1] = g
             /\ \A m \in 1..g : \E c \in 1..Len(OfOp(p, "concat")[1].in) :
                  OfOp(p, "concat")[1].in[c] = Label("v", m - 1)

\* three segments in two shot groups, with audio: two branches, not three
C13_Witness ==
  /\ Built
  /\ has_audio
  /\ Len(av_segments) = 3
  /\ ShotGroupCount = 2
  /\ Len(VideoSelects(full_av_select_filter)) = 2

\* the sum of (end - start) over the first m referenced segments
RECURSIVE SegmentSpanSum(_)
SegmentSpanSum(m) ==
  IF m = 0 THEN 0
  ELSE SegmentSpanSum(m - 1) + (av_segments[m].end_s - av_segments[m].start_s)

\* the sum of (end of last segment - start of first) over shot groups
RECURSIVE ShotGroupSpanSum(_)
ShotGroupSpanSum(groups) ==
  IF groups = <<>> THEN 0
  ELSE ShotGroupSpanSum(Front(groups))
       + (Last(groups).last.end_s - Last(groups).first.start_s)

\* the total duration of the composed video, as the synthesis computes it
totalDuration == ShotGroupSpanSum(ShotGroups)

\* inside every shot group each segment ends where the next one starts
Abutting ==
  \A p \in (1..(Len(av_segments) - 1)) \ SegmentBreaks :
    av_segments[p].end_s = av_segments[p + 1].start_s

\* the overlay windows of the programs that use one
OverlayWindows == UNION {SeqToSet(Windows(p)) : p \in Programs}

\* C14 as stated: for every anchor the overlay window of the music overlay
\* and of the continuous audio program is as long as the sum of
\* (end - start) over all referenced segments, the total duration.
C14_DurationIsSumOfSegments ==
  Built =>
    \A w \in OverlayWindows :
      w.args[2] - w.args[1] = SegmentSpanSum(Len(av_segments))

\* C14 (amended): the total duration is the sum over the shot groups of
\* (end of the group's last segment - start of its first segment), which is
\* the sum of (end - start) over the segments when the segments of every
\* group abut; for every anchor the music overlay and the continuous audio
\* program have one overlay window, exactly that long.
C14_DurationIsSumOfShotGroups ==
  Built =>
    /\ has_audio =>
         /\ Len(Windows(music_overlay_select_filter)) = 1
         /\ Len(Windows(continuous_audio_select_filter)) = 1
         /\ Windows(full_av_select_filter) = <<>>
    /\ \A w \in OverlayWindows :
         /\ w.args[2] - w.args[1] = totalDuration
         /\ Abutting => w.args[2] - w.args[1] = SegmentSpanSum(Len(av_segments))

\* an overlay window anchored at the video's end, over two shot groups one
\* of which spans a pause between its segments
C14_Witness ==
  /\ Built
  /\ has_audio
  /\ render_settings.overlay_type = VIDEO_END
  /\ ShotGroupCount = 2
  /\ ~Abutting
  /\ Windows(music_overlay_select_filter)[1].args[2]
       - Windows(music_overlay_select_filter)[1].args[1]
     = totalDuration

\* C15: with fade-out enabled and an audio track, each of the three programs
\* ends with its only fade filter, an audio fade-out from [outa] to [outa]
\* that starts at totalDuration - fadeDuration - fadeBuffer and lasts
\* fadeDuration; with fade-out disabled no program has a fade filter.
C15_FadeOutOnOutputAudio ==
  Built =>
    /\ (render_settings.fade_out /\ has_audio) =>
         \A p \in {full_av_select_filter, music_overlay_select_filter,
                   continuous_audio_select_filter} :
           /\ p # <<>>
           /\ Len(OfOp(p, "afade")) = 1
           /\ Last(p) = Filter("afade", <<Stream("outa")>>,
                               <<totalDuration - CONFIG_DEFAULT_FADE_OUT_DURATION
                                   - CONFIG_DEFAULT_FADE_OUT_BUFFER,
                                 CONFIG_DEFAULT_FADE_OUT_DURATION>>,
                               <<Stream("outa")>>)
           /\ \A w \in SeqToSet(Windows(p)) :
                Last(p).args[1] = (w.args[2] - w.args[1])
                                    - CONFIG_DEFAULT_FADE_OUT_DURATION
                                    - CONFIG_DEFAULT_FADE_OUT_BUFFER
    /\ ~render_settings.fade_out =>
         \A p \in {full_av_select_filter, music_overlay_select_filter,
                   continuous_audio_select_filter} :
           OfOp(p, "afade") = <<>>

\* fade-out over two shot groups with audio: the continuous audio program
\* ends with the fade
C15_Witness ==
  /\ Built
  /\ render_settings.fade_out
  /\ has_audio
  /\ ShotGroupCount = 2
  /\ Last(continuous_audio_select_filter).op = "afade"
  /\ Last(continuous_audio_select_filter).args[1] =
       totalDuration - CONFIG_DEFAULT_FADE_OUT_DURATION
         - CONFIG_DEFAULT_FADE_OUT_BUFFER

\* the earliest start and the latest end over all referenced segments
EarliestSegmentStart ==
  CHOOSE t \in {av_segments[k].start_s : k \in 1..Len(av_segments)} :
    \A k \in 1..Len(av_segments) : t <= av_segments[k].start_s
LatestSegmentEnd ==
  CHOOSE t \in {av_segments[k].end_s : k \in 1..Len(av_segments)} :
    \A k \in 1..Len(av_segments) : t >= av_segments[k].end_s

\* C16: the overlay window of the music overlay and of the continuous audio
\* program starts, by anchor: variantStart at the earliest segment start;
\* variantEnd at the latest segment end minus the total duration; videoStart
\* at 0; videoEnd at the source duration minus the total duration; an absent
\* or unrecognised anchor as variantStart.
C16_OverlayAnchor ==
  (Built /\ has_audio) =>
    \A p \in {music_overlay_select_filter, continuous_audio_select_filter} :
      /\ Len(Windows(p)) = 1
      /\ Windows(p)[1].args[1] =
           CASE render_settings.overlay_type = VIDEO_START -> 0
             [] render_settings.overlay_type = VIDEO_END ->
                  video_duration - totalDuration
             [] render_settings.overlay_type = VARIANT_END ->
                  LatestSegmentEnd - totalDuration
             [] render_settings.overlay_type \in {VARIANT_START, None, "other"} ->
                  EarliestSegmentStart

\* an unrecognised anchor on a creative whose first segment is not the
\* earliest one: the window starts at the earliest segment start
C16_Witness ==
  /\ Built
  /\ has_audio
  /\ render_settings.overlay_type = "other"
  /\ Len(av_segments) >= 2
  /\ av_segments[1].start_s > EarliestSegmentStart
  /\ Windows(music_overlay_select_filter)[1].args[1] = EarliestSegmentStart

\* the commands run so far, and those built by _get_variant_ffmpeg_commands
Commands == SeqToSet(ran)
VariantCommands == {c \in Commands : c.vf = None}

\* C17 as stated: every render command run for the variant carries the
\* continuous audio program if use_continuous_audio is set, else the music
\* overlay program with stereo output if use_music_overlay is set, else the
\* default program, and all commands of the variant carry the same program
\* (for a variant of at least one segment).
C17_OneProgramBySettings ==
  av_segments # <<>> =>
  \A c \in Commands :
    /\ c.filter_complex =
         IF render_settings.use_continuous_audio
         THEN continuous_audio_select_filter
         ELSE IF render_settings.use_music_overlay
         THEN music_overlay_select_filter
         ELSE full_av_select_filter
    /\ (c.ac = 2) <=> (~render_settings.use_continuous_audio
                       /\ render_settings.use_music_overlay)
    /\ \A d \in Commands : d.filter_complex = c.filter_complex

\* C17 (amended): every command built by _get_variant_ffmpeg_commands
\* carries exactly one of the three programs: with an audio track the
\* continuous audio program if use_continuous_audio is set (also when
\* use_music_overlay is set), else the music overlay program with stereo
\* output if use_music_overlay is set, else the default program; without an
\* audio track always the default program; the horizontal command and the
\* command of every format with a cropped source carry the same program.  A
\* format without cropped source is rendered from the horizontal output with
\* the blur filter and carries no program.
C17_OneProgramBySettingsAndAudio ==
  /\ \A c \in VariantCommands :
       /\ c.filter_complex # <<>>
       /\ c.filter_complex =
            IF has_audio /\ render_settings.use_continuous_audio
            THEN continuous_audio_select_filter
            ELSE IF has_audio /\ render_settings.use_music_overlay
            THEN music_overlay_select_filter
            ELSE full_av_select_filter
       /\ (c.ac = 2) <=> (/\ has_audio
                          /\ ~render_settings.use_continuous_audio
                          /\ render_settings.use_music_overlay)
       /\ \A d \in VariantCommands :
            d.filter_complex = c.filter_complex /\ d.ac = c.ac
  /\ \A c \in Commands \ VariantCommands :
       /\ c.filter_complex = <<>>
       /\ c.i = <<ComboFile(HORIZONTAL)>>
       /\ c.output = ComboFile(SQUARE) => square_video_file_path = None
       /\ c.output = ComboFile(VERTICAL) => vertical_video_file_path = None

\* three formats rendered from cropped sources with audio and both settings
\* set: all three commands carry the continuous audio program
C17_Witness ==
  /\ Len(ran) = 3
  /\ has_audio
  /\ render_settings.use_continuous_audio
  /\ render_settings.use_music_overlay
  /\ \A c \in Commands :
       c.vf = None /\ c.filter_complex = continuous_audio_select_filter

\* the video-only concatenation: the video select branches, then one concat
\* of them with v=1 producing [outv]
VideoOnlyConcat(program) ==
  /\ program # <<>>
  /\ Len(VideoSelects(program)) = Len(program) - 1
  /\ Last(program).op = "concat"
  /\ Len(Last(program).args) = 2
  /\ Last(program).args[2] = 1
  /\ Last(program).out = <<Stream("outv")>>
  /\ \A c \in 1..Len(Last(program).in) : Last(program).in[c][1] = "v"
NoAudioBranch(program) ==
  \A f \in SeqToSet(program) : f.op \notin {"aselect", "amerge", "afade"}

\* C18 as stated: without an audio track each of the three programs is the
\* video-only concatenation with no audio select, merge or fade, and the
\* render command maps no audio output.
C18_AllProgramsVideoOnly ==
  (Built /\ ~has_audio) =>
    /\ \A p \in {full_av_select_filter, music_overlay_select_filter,
                 continuous_audio_select_filter} :
         VideoOnlyConcat(p) /\ NoAudioBranch(p)
    /\ CommandBuilt => ffmpeg_cmds.map = <<Stream("outv")>>

\* C18 (amended): without an audio track the full program is the video-only
\* concatenation with no audio select, merge or fade; the music overlay and
\* the continuous audio program are empty and are never passed to a command:
\* whatever the settings, the render command carries the full program, does
\* not force stereo and maps [outv] only.
C18_FullProgramVideoOnly ==
  (Built /\ ~has_audio) =>
    /\ VideoOnlyConcat(full_av_select_filter)
    /\ NoAudioBranch(full_av_select_filter)
    /\ music_overlay_select_filter = <<>>
    /\ continuous_audio_select_filter = <<>>
    /\ CommandBuilt =>
         /\ ffmpeg_cmds.filter_complex = full_av_select_filter
         /\ ffmpeg_cmds.ac = 0
         /\ ffmpeg_cmds.map = <<Stream("outv")>>

\* no audio track, with fade-out, music overlay and continuous audio all
\* set: the command built carries the video-only full program
C18_Witness ==
  /\ ~has_audio
  /\ render_settings.fade_out
  /\ render_settings.use_music_overlay
  /\ render_settings.use_continuous_audio
  /\ CommandBuilt
  /\ Len(ffmpeg_cmds.filter_complex) = 3
  /\ ffmpeg_cmds.map = <<Stream("outv")>>

\* C19 as stated: when the variant references no segment, no transcoding
\* command whose concat has n = 0 is run and no partial file is written.
C19_ZeroSegmentsRejected ==
  (rpc # "off" /\ av_segments = <<>>) =>
    /\ \A c \in Commands :
         \A f \in SeqToSet(OfOp(c.filter_complex, "concat")) : f.args[1] # 0
    /\ PartialFile(1) \notin output_dir
    /\ PartialFile(1) \notin uploaded

\* C20 as stated: when a transcoding run for the horizontal, square or
\* vertical video has failed and render() has aborted, no file of the
\* variant (of at least one segment) has been uploaded to the batch folder.
C20_FailedRenderUploadedNothing ==
  (rpc = "failed" /\ av_segments # <<>>) => uploaded = {}

\* the formats of a variant: the horizontal one and formats_to_render
RequestedFormats == {HORIZONTAL} \cup render_settings.formats

\* C21: a failure, exception or empty response in the image or text asset
\* generation never aborts render(): the step in which it happens does not
\* end in failure, and once render() has written the partial-result file the
\* file is uploaded, its 'variants' entry has every rendered format, and
\* only 'images' entries or 'texts' may be missing from it; without such a
\* failure the entries asked for are all there.
C21_AssetFaultsNeverAbort ==
  [][ /\ (asset_fault' /\ ~asset_fault) => rpc' \notin {"failed", "off"}
      /\ rpc' = "done" =>
           /\ PartialFile(1) \in uploaded'
           /\ render_result'.variants = RequestedFormats
           /\ render_result'.images \subseteq RequestedFormats
           /\ ~asset_fault' =>
                /\ render_result'.images =
                     (IF render_settings.generate_image_assets
                      THEN RequestedFormats ELSE {})
                /\ render_result'.texts = render_settings.generate_text_assets
    ]_vars

\* the key frames of the square format and the text assets failed: render()
\* has written the partial-result file with all three formats, the images
\* of the two other formats and no texts
C21_Witness ==
  /\ rpc = "done"
  /\ asset_fault
  /\ render_settings.generate_text_assets
  /\ PartialFile(1) \in uploaded
  /\ render_result.variants = {HORIZONTAL, SQUARE, VERTICAL}
  /\ render_result.images = {HORIZONTAL, VERTICAL}
  /\ ~render_result.texts

(***************************************************************************)
(* Properties of the render commands, continued.                           *)
(***************************************************************************)
\* C29 as stated: a command that carries the music overlay program, which
\* reads the audio of inputs 1 and 2, has the speech track and the music
\* track as its second and third input; with a track absent the music
\* overlay program is not chosen.
C29_MusicProgramHasItsInputs ==
  (CommandBuilt /\ av_segments # <<>> /\ has_audio
   /\ ffmpeg_cmds.filter_complex = music_overlay_select_filter) =>
    /\ speech_track_path # None
    /\ music_track_path # None
    /\ ffmpeg_cmds.i = <<VideoFile, speech_track_path, music_track_path>>

\* no two segments of the variant overlap, and all lie in the source video
SegmentsDisjointWithinSource ==
  /\ \A a, b \in 1..Len(av_segments) :
       a # b => \/ av_segments[a].end_s <= av_segments[b].start_s
                \/ av_segments[b].end_s <= av_segments[a].start_s
  /\ \A a \in 1..Len(av_segments) :
       /\ 0 <= av_segments[a].start_s
       /\ av_segments[a].start_s <= av_segments[a].end_s
       /\ av_segments[a].end_s <= video_duration

\* C30: for a variant whose segments are pairwise disjoint and lie within
\* the source video, for each of the four anchors and every creative order,
\* the overlay window of the music overlay and of the continuous audio
\* program starts at 0 or later and ends at the source duration or earlier.
C30_OverlayWindowWithinSource ==
  (/\ Built
   /\ has_audio
   /\ SegmentsDisjointWithinSource
   /\ render_settings.overlay_type
        \in {VARIANT_START, VARIANT_END, VIDEO_START, VIDEO_END}) =>
    /\ OverlayWindows # {}
    /\ \A w \in OverlayWindows :
         /\ 0 <= w.args[1]
         /\ w.args[1] <= w.args[2]
         /\ w.args[2] <= video_duration

\* a creative that does not start with its earliest segment and reaches the
\* end of the source video, anchored at the variant's start: the window ends
\* with the source video
C30_Witness ==
  /\ Built
  /\ has_audio
  /\ SegmentsDisjointWithinSource
  /\ render_settings.overlay_type = VARIANT_START
  /\ Len(av_segments) >= 3
  /\ av_segments[1].start_s > EarliestSegmentStart
  /\ \A w \in OverlayWindows :
       w.args[1] = EarliestSegmentStart /\ w.args[2] = video_duration

(***************************************************************************)
(* Properties of the fan-in protocol, continued.                           *)
(***************************************************************************)
\* worker v, with every partial file uploaded in first runs and its own
\* uploaded last, lists the folder for its completion check
LastUploaderLists(v) ==
  /\ check_finalise_list(v)
  /\ retries = 0
  /\ last_upload = v
  /\ AllPartials \subseteq DOMAIN files

ReRendered == {v \in Variants : rerun[v] /\ pc[v] \in {"uploaded", "listed", "done"}}

\* the partial files a listing shows, in the listing's order
PartialNames == SortNames({n \in visible : n \in AllPartials})

\* C28 as stated: when finalise_render() runs again after a variant was
\* rendered again and an earlier run has written the combined file, the
\* mapping it builds has the new value for that variant's key: it is the
\* merge of the partial files alone.
C28_MergeIgnoresCombinedFile ==
  [][(finalise_render_merge /\ CombinedFile \in visible /\ ReRendered # {}) =>
       /\ \A v \in ReRendered :
            /\ HasKey(output', v)
            /\ Lookup(output', v) = Lookup(files[PartialFile(v)], v)
       /\ output' = MergeDicts(<<>>, [n \in 1..Len(PartialNames) |->
                                        files[PartialNames[n]]])]_vars

(***************************************************************************)
(* Properties of the end-slate job.                                        *)
(***************************************************************************)
SourceFiles == SeqToSet(all_files)

\* C22 as stated: when the handler of one file has failed, every file of
\* the source folder has been attempted by the time the job ends.
C22_RemainingFilesAttempted ==
  (epc = "raised" /\ failed_file # None) => attempted = SourceFiles

\* the job is over, after a setup that worked
JobEnded == epc = "completed" \/ (epc = "raised" /\ failed_file # None)

\* C23 as stated: the job ends reporting failure if and only if a file
\* could not be processed (its handler raised, or its download returned
\* nothing), and a failure is reported only after every file was attempted.
C23_FailureIffSomeFileUnprocessed ==
  JobEnded =>
    /\ (epc = "raised") <=> (failed_file # None \/ skipped # {})
    /\ attempted = SourceFiles

\* the treatment of a file by its category
TreatmentOf(file) ==
  IF is_combo_video(file) THEN "slate"
  ELSE IF is_text_file(file) THEN "rewrite"
  ELSE "copy"

\* the objects under a folder
ObjectsIn(folder) ==
  {o \in bucket : Len(o.path) >= 3 /\ SubSeq(o.path, 1, 3) = <<gcs_root_folder, "/", folder>>}

\* C26 as stated: after a run that ended successfully, every file of the
\* source folder is in the new folder at the same relative path, with the
\* bytes of its one treatment (the same bytes for files that are neither
\* combo videos nor text files), the new folder holds nothing else, and the
\* source folder is as it was.
C26_EveryFileInNewFolder ==
  epc = "completed" =>
    /\ \A file \in SourceFiles :
         LET relative_path == SubSeq(file, 5, Len(file))
             copied == ObjectAt(bucket, FolderPath(CtaFolderPiece, relative_path))
         IN  /\ copied # NoObject
             /\ copied = IF TreatmentOf(file) = "copy"
                         THEN ObjectAt(bucket, file)
                         ELSE Bytes(TreatmentOf(file), relative_path)
    /\ Cardinality(ObjectsIn(CtaFolderPiece)) = Len(all_files)
    /\ ObjectsIn(RenderFolderPiece) =
         {[path |-> file, bytes |-> Bytes("file", SubSeq(file, 5, Len(file)))] :
            file \in SourceFiles}

\* how often the pieces of part occur in s, one after the other
RECURSIVE Occurrences(_, _)
Occurrences(s, part) ==
  IF Len(s) < Len(part) THEN 0
  ELSE IF SubSeq(s, 1, Len(part)) = part
  THEN 1 + Occurrences(SubSeq(s, Len(part) + 1, Len(s)), part)
  ELSE Occurrences(Tail(s), part)

\* C24 as stated: after any number of applications of _update_combos_json a
\* further application changes nothing, the title of each variant (key
\* starting with '_') has the marker once and its description the padding
\* once, and the other entries are as they were.
C24_UpdateIsIdempotentAndOnce ==
  (wpc = "combos" /\ applications >= 1 /\ text_content.layout # "invalid") =>
    /\ update_combos_json(updated_content) = updated_content
    /\ Len(updated_content.data) = Len(text_content.data)
    /\ \A k \in 1..Len(updated_content.data) :
         LET entry == updated_content.data[k]
         IN  IF Head(entry.key) = "_"
             THEN /\ "title" \in DOMAIN entry.variant =>
                       Occurrences(entry.variant.title, <<"WITH END SLATE">>) = 1
                  /\ "description" \in DOMAIN entry.variant =>
                       Occurrences(entry.variant.description,
                                   <<" ", " ", " ", " ">>) = 1
             ELSE entry = text_content.data[k]

\* the text with each occurrence of the folder substituted once, from left
\* to right: a plain occurrence by the new name, a percent-encoded one by
\* the percent-encoded new name
RECURSIVE SubstitutedOnce(_, _, _)
SubstitutedOnce(text, original, cta) ==
  IF text = <<>> THEN <<>>
  ELSE IF Len(text) >= Len(original) /\ SubSeq(text, 1, Len(original)) = original
  THEN cta \o SubstitutedOnce(SubSeq(text, Len(original) + 1, Len(text)), original, cta)
  ELSE IF Len(text) >= Len(quote(original))
          /\ SubSeq(text, 1, Len(quote(original))) = quote(original)
  THEN quote(cta)
       \o SubstitutedOnce(SubSeq(text, Len(quote(original)) + 1, Len(text)),
                          original, cta)
  ELSE <<Head(text)>> \o SubstitutedOnce(Tail(text), original, cta)

\* C25 as stated: the rewritten text is the text with every plain
\* occurrence of the original folder replaced once by the new folder's name
\* and every percent-encoded occurrence once by the percent-encoded new
\* name, all other text unchanged, whatever the original folder's name.
C25_EachOccurrenceSubstitutedOnce ==
  wpc = "rewritten" =>
    updated_content = SubstitutedOnce(text_content, original_folder, cta_folder)

====
